---- MODULE Spec2Model ----
(***************************************************************************)
(* Model of the Shopmonkey scheduling service: the availability engine of  *)
(* availability.py (business hours, conflict check, day-span planner, slot *)
(* generator, slot calculation, re-validation) and the /book endpoint of   *)
(* main.py (booking lock, re-validation, technician selection, vendor      *)
(* writes).                                                                *)
(*                                                                         *)
(* Time model: a date is a day number (day 0 is a Monday), a time of day   *)
(* is a number of minutes after midnight, a datetime is a record           *)
(* [d |-> day, m |-> minute] compared lexicographically, as Python's       *)
(* naive datetimes are.                                                    *)
(***************************************************************************)
EXTENDS Integers, Sequences, FiniteSets, TLC

VARIABLES
    inp,                  \* inputs of the pure function under exploration
    out,                  \* its result
    store,                \* the vendor's appointments (Shopmonkey)
    lock_holder,          \* booking_lock: the request holding it, or NoRequest
    lock_waiters,         \* booking_lock: FIFO queue of waiting requests
    round_robin_tracker,  \* department -> priority -> last index
    pc,                   \* each /book request's position
    request,              \* each /book request's body (slot_start, slot_end, service)
    locals,               \* each /book request's local variables
    log                   \* each /book request's history of steps (ghost)

engine_vars == <<inp, out>>
booking_vars == <<store, lock_holder, lock_waiters, round_robin_tracker,
                  pc, request, locals, log>>
vars == <<inp, out, store, lock_holder, lock_waiters, round_robin_tracker,
          pc, request, locals, log>>

----------------------------------------------------------------------------
(* Generic helpers *)

Range(s) == {s[i] : i \in 1..Len(s)}

Min(a, b) == IF a <= b THEN a ELSE b

RECURSIVE SumMinutes(_)
SumMinutes(days) ==
    IF days = <<>> THEN 0 ELSE Head(days)[2] + SumMinutes(Tail(days))

\* All sequences over S of length at most n.
SeqsUpTo(S, n) == UNION {[1..k -> S] : k \in 0..n}

\* The elements of list at the positions in S, from position i on, in order.
RECURSIVE PickFrom(_, _, _)
PickFrom(list, S, i) ==
    IF i > Len(list) THEN <<>>
    ELSE (IF i \in S THEN <<list[i]>> ELSE <<>>) \o PickFrom(list, S, i + 1)

\* All sub-lists of list with at most n elements.
SubListsUpTo(list, n) ==
    {PickFrom(list, S, 1) : S \in {X \in SUBSET (1..Len(list)) : Cardinality(X) <= n}}

----------------------------------------------------------------------------
(* Dates and times *)

\* datetime.combine(date.date(), t)
combine(date, t) == [d |-> date, m |-> t]

\* a < b on naive datetimes
DtLess(a, b) == a.d < b.d \/ (a.d = b.d /\ a.m < b.m)

\* date.strftime("%A").lower(): day 0 is a Monday
WeekdayNames == <<"monday", "tuesday", "wednesday", "thursday", "friday",
                  "saturday", "sunday">>

day_name(date) == WeekdayNames[(date % 7) + 1]

\* datetime.strptime(s, "%H:%M").time() on a string "HH:MM", held as <<HH, MM>>
strptime_HM(s) == s[1] * 60 + s[2]

----------------------------------------------------------------------------
(* Appointments (vendor records)                                           *)
(* technicianId / userId: a technician id, or NoTech when the field is     *)
(* missing, null or empty (all falsy in Python).                           *)
(* startDate / endDate: [kind, d, m, tz]; kind "absent" (missing or empty),*)
(* "bad" (not ISO-8601) or "iso"; tz is "" (naive), "Z" or an offset.      *)

NoTech == ""

AbsentTs == [kind |-> "absent", d |-> 0, m |-> 0, tz |-> ""]
BadTs == [kind |-> "bad", d |-> 0, m |-> 0, tz |-> ""]
IsoTs(d, m, tz) == [kind |-> "iso", d |-> d, m |-> m, tz |-> tz]

Appt(tech, user, s, e) ==
    [technicianId |-> tech, userId |-> user, startDate |-> s, endDate |-> e]

\* start_str.replace("Z", "+00:00")
replace_Z(ts) == IF ts.tz = "Z" THEN [ts EXCEPT !.tz = "+00:00"] ELSE ts

\* datetime.fromisoformat: an aware or naive datetime [d, m, tzinfo]
fromisoformat(ts) == [d |-> ts.d, m |-> ts.m, tzinfo |-> ts.tz]

\* dt.replace(tzinfo=None) when dt.tzinfo is not None: the offset is dropped,
\* the wall-clock fields are kept
make_naive(dt) == [d |-> dt.d, m |-> dt.m]

ParseNone == [none |-> TRUE, start |-> combine(0, 0), end |-> combine(0, 0)]

\* A parse that turns a missing or malformed timestamp into an appointment
\* covering every instant instead of skipping it.
parse_appointment_times_blocking(appointment) ==
    LET start_str == appointment.startDate
        end_str == appointment.endDate
    IN  IF start_str.kind # "iso" \/ end_str.kind # "iso"
        THEN [none |-> FALSE, start |-> combine(-1, 0), end |-> combine(8, 0)]
        ELSE [none |-> FALSE,
              start |-> make_naive(fromisoformat(replace_Z(start_str))),
              end |-> make_naive(fromisoformat(replace_Z(end_str)))]

parse_appointment_times(appointment) ==
    LET start_str == appointment.startDate
        end_str == appointment.endDate
    IN  IF start_str.kind = "absent" \/ end_str.kind = "absent" THEN ParseNone
        ELSE IF start_str.kind = "bad" \/ end_str.kind = "bad" THEN ParseNone
        ELSE [none |-> FALSE,
              start |-> make_naive(fromisoformat(replace_Z(start_str))),
              end |-> make_naive(fromisoformat(replace_Z(end_str)))]

\* The attribution with the legacy field preferred to the primary one.
appt_tech_legacy_first(appt) ==
    IF appt.userId # NoTech THEN appt.userId ELSE appt.technicianId

\* appt.get("technicianId") or appt.get("userId")
appt_tech(appt) ==
    IF appt.technicianId # NoTech THEN appt.technicianId ELSE appt.userId

\* indexed.get(tech_id, [])
index_get(indexed, tech_id) ==
    IF tech_id \in DOMAIN indexed THEN indexed[tech_id] ELSE <<>>

\* The indexing loop with assignment in place of append: each technician
\* keeps the latest appointment only.
RECURSIVE index_loop_overwrite(_, _)
index_loop_overwrite(appointments, indexed) ==
    IF appointments = <<>> THEN indexed
    ELSE LET appt == Head(appointments)
             tech_id == appt_tech(appt)
         IN  IF tech_id # NoTech
             THEN index_loop_overwrite(Tail(appointments),
                      [k \in DOMAIN indexed \cup {tech_id} |->
                          IF k = tech_id THEN <<appt>> ELSE indexed[k]])
             ELSE index_loop_overwrite(Tail(appointments), indexed)

\* The loop of index_appointments_by_tech, from the dict built so far.
RECURSIVE index_loop(_, _)
index_loop(appointments, indexed) ==
    IF appointments = <<>> THEN indexed
    ELSE LET appt == Head(appointments)
             tech_id == appt_tech(appt)
         IN  IF tech_id # NoTech
             THEN index_loop(Tail(appointments),
                      [k \in DOMAIN indexed \cup {tech_id} |->
                          IF k = tech_id
                          THEN Append(index_get(indexed, tech_id), appt)
                          ELSE indexed[k]])
             ELSE index_loop(Tail(appointments), indexed)

index_appointments_by_tech(appointments) ==
    index_loop(appointments, [k \in {} |-> <<>>])

\* [appt for appt in appointments if (technicianId or userId) == tech_id]
RECURSIVE filter_by_tech(_, _)
filter_by_tech(appointments, tech_id) ==
    IF appointments = <<>> THEN <<>>
    ELSE LET appt == Head(appointments)
             rest == filter_by_tech(Tail(appointments), tech_id)
         IN  IF appt_tech(appt) = tech_id THEN <<appt>> \o rest ELSE rest

\* The overlap test with <= in place of <: boundary-touching intervals conflict.
overlaps_closed(appt_start, appt_end, slot_start_dt, slot_end_dt) ==
    ~DtLess(slot_end_dt, appt_start) /\ ~DtLess(appt_end, slot_start_dt)

\* appt_start < slot_end_dt and appt_end > slot_start_dt
overlaps(appt_start, appt_end, slot_start_dt, slot_end_dt) ==
    DtLess(appt_start, slot_end_dt) /\ DtLess(slot_start_dt, appt_end)

\* The loop over tech_appointments, returning at the first overlap.
RECURSIVE conflict_loop(_, _, _)
conflict_loop(tech_appointments, slot_start_dt, slot_end_dt) ==
    IF tech_appointments = <<>> THEN FALSE
    ELSE LET times == parse_appointment_times(Head(tech_appointments))
         IN  IF times.none
             THEN conflict_loop(Tail(tech_appointments), slot_start_dt, slot_end_dt)
             ELSE IF overlaps(times.start, times.end, slot_start_dt, slot_end_dt)
                  THEN TRUE
                  ELSE conflict_loop(Tail(tech_appointments), slot_start_dt,
                                     slot_end_dt)

\* use_index: indexed_appointments is not None
check_slot_conflicts(slot_start, slot_end, date, appointments, tech_id, use_index, indexed_appointments) ==
    LET slot_start_dt == combine(date, slot_start)
        slot_end_dt == combine(date, slot_end)
        tech_appointments ==
            IF use_index THEN index_get(indexed_appointments, tech_id)
            ELSE filter_by_tech(appointments, tech_id)
    IN  conflict_loop(tech_appointments, slot_start_dt, slot_end_dt)

----------------------------------------------------------------------------
(* Configuration and business hours                                        *)
(* config.business_hours: a dict from key strings to day entries; a day    *)
(* entry is null (is_null) or a dict whose "open" / "close" are "HH:MM"    *)
(* strings held as <<HH, MM>>, or <<>> when missing or empty.              *)

NoneTime == -1

BusinessHours(open_time, close_time) ==
    [open_time |-> open_time, close_time |-> close_time]

is_open(business_hours) ==
    business_hours.open_time # NoneTime /\ business_hours.close_time # NoneTime

NullDay == [is_null |-> TRUE, open |-> <<>>, close |-> <<>>]

DayHours(open_str, close_str) ==
    [is_null |-> FALSE, open |-> open_str, close |-> close_str]

\* A lookup that falls back to 09:00-17:00 for a weekday the schedule omits.
day_config_of_default(config, date) ==
    IF day_name(date) \in DOMAIN config.business_hours
    THEN config.business_hours[day_name(date)]
    ELSE DayHours(<<9, 0>>, <<17, 0>>)

\* config.get("business_hours", {}).get(day_name)
day_config_of(config, date) ==
    IF day_name(date) \in DOMAIN config.business_hours
    THEN config.business_hours[day_name(date)]
    ELSE NullDay

get_business_hours(config, date) ==
    LET day_config == day_config_of(config, date)
    IN  IF day_config.is_null THEN BusinessHours(NoneTime, NoneTime)
        ELSE IF day_config.open = <<>> \/ day_config.close = <<>>
             THEN BusinessHours(NoneTime, NoneTime)
             ELSE BusinessHours(strptime_HM(day_config.open),
                                strptime_HM(day_config.close))

\* A scan that begins at the date itself instead of the day after it.
RECURSIVE next_business_day_from(_, _, _)
next_business_day_from(date, config, left) ==
    IF left = 0 THEN -1
    ELSE IF date % 7 \in {d \in 0..6 :
                LET day_config == day_config_of(config, d)
                IN  ~day_config.is_null /\ day_config.open # <<>> /\ day_config.close # <<>>}
         THEN date
         ELSE next_business_day_from(date + 1, config, left - 1)

get_next_business_day_from_date(date, config) ==
    next_business_day_from(date, config, 7)

\* The scan cut one day short: the date's own weekday is not reached again.
RECURSIVE next_business_day_loop_short(_, _, _)
next_business_day_loop_short(next_date, config, left) ==
    IF left <= 1 THEN NoneTime
    ELSE IF is_open(get_business_hours(config, next_date)) THEN next_date
         ELSE next_business_day_loop_short(next_date + 1, config, left - 1)

\* The scan of get_next_business_day: `left` iterations of range(7) remain.
RECURSIVE next_business_day_loop(_, _, _)
next_business_day_loop(next_date, config, left) ==
    IF left = 0 THEN NoneTime
    ELSE IF is_open(get_business_hours(config, next_date)) THEN next_date
         ELSE next_business_day_loop(next_date + 1, config, left - 1)

ScanDays == 7

\* Returns a date, or NoneTime for None.
get_next_business_day(date, config) ==
    next_business_day_loop(date + 1, config, ScanDays)

----------------------------------------------------------------------------
(* Day-span planner *)

\* Iterations of the planner's while loop that are followed; a loop that has
\* not ended by then is reported as not having returned ("diverges").
MaxPlanDays == 20

PlanNone == [kind |-> "none", days |-> <<>>]
Plan(days) == [kind |-> "plan", days |-> days]
PlanDiverges == [kind |-> "diverges", days |-> <<>>]

\* The planner's loop with every continuation day charged at its full length
\* (the min with the outstanding minutes dropped).
RECURSIVE days_needed_loop_nomin(_, _, _, _, _)
days_needed_loop_nomin(days_needed, remaining_minutes, check_date, config, fuel) ==
    IF ~(remaining_minutes > 0) THEN Plan(days_needed)
    ELSE IF fuel = 0 THEN PlanDiverges
    ELSE LET next_day == get_next_business_day(check_date, config)
         IN  IF next_day = NoneTime THEN PlanNone
             ELSE LET next_hours == get_business_hours(config, next_day)
                      day_minutes == next_hours.close_time - next_hours.open_time
                  IN  days_needed_loop_nomin(
                          Append(days_needed, <<next_day, day_minutes>>),
                          remaining_minutes - day_minutes, next_day, config,
                          fuel - 1)

\* while remaining_minutes > 0: ...
RECURSIVE days_needed_loop(_, _, _, _, _)
days_needed_loop(days_needed, remaining_minutes, check_date, config, fuel) ==
    IF ~(remaining_minutes > 0) THEN Plan(days_needed)
    ELSE IF fuel = 0 THEN PlanDiverges
    ELSE LET next_day == get_next_business_day(check_date, config)
         IN  IF next_day = NoneTime THEN PlanNone
             ELSE LET next_hours == get_business_hours(config, next_day)
                      day_minutes == next_hours.close_time - next_hours.open_time
                      minutes_on_this_day == Min(remaining_minutes, day_minutes)
                  IN  days_needed_loop(
                          Append(days_needed, <<next_day, minutes_on_this_day>>),
                          remaining_minutes - day_minutes, next_day, config,
                          fuel - 1)

calculate_days_needed(duration_minutes, start_date, start_time, config) ==
    LET business_hours == get_business_hours(config, start_date)
        minutes_until_close == business_hours.close_time - start_time
    IN  IF ~is_open(business_hours) THEN PlanNone
        ELSE IF duration_minutes <= minutes_until_close
             THEN Plan(<<<<start_date, duration_minutes>>>>)
             ELSE days_needed_loop(<<<<start_date, minutes_until_close>>>>,
                                   duration_minutes - minutes_until_close,
                                   start_date, config, MaxPlanDays)

----------------------------------------------------------------------------
(* Multi-day availability of one technician *)

\* (datetime.combine(date, t) + timedelta(minutes=n)).time()
time_plus(t, n) == (t + n) % (24 * 60)

\* future_appointments.get(date.strftime("%Y-%m-%d"), [])
future_get(future_appointments, date) ==
    IF date \in DOMAIN future_appointments THEN future_appointments[date]
    ELSE <<>>

\* for date, minutes_needed in days_needed[1:]: ...
RECURSIVE subsequent_days_free(_, _, _, _)
subsequent_days_free(tech_id, days, future_appointments, config) ==
    IF days = <<>> THEN TRUE
    ELSE LET date == Head(days)[1]
             minutes_needed == Head(days)[2]
             day_hours == get_business_hours(config, date)
         IN  IF ~is_open(day_hours) THEN FALSE
             ELSE LET needed_end == time_plus(day_hours.open_time, minutes_needed)
                      day_appointments == future_get(future_appointments, date)
                      indexed_future == index_appointments_by_tech(day_appointments)
                  IN  IF check_slot_conflicts(day_hours.open_time, needed_end, date, day_appointments, tech_id, TRUE, indexed_future)
                      THEN FALSE
                      ELSE subsequent_days_free(tech_id, Tail(days),
                                                future_appointments, config)

\* The multi-day check with the subsequent days left out.
check_tech_first_day_only(tech_id, days_needed, first_day_appointments, first_day_start_time, first_day_close_time, future_appointments, config, indexed_first_day) ==
    IF days_needed = <<>> THEN FALSE
    ELSE ~check_slot_conflicts(first_day_start_time, first_day_close_time, Head(days_needed)[1], first_day_appointments, tech_id, TRUE, indexed_first_day)

check_tech_multiday_availability(tech_id, days_needed, first_day_appointments, first_day_start_time, first_day_close_time, future_appointments, config, indexed_first_day) ==
    IF days_needed = <<>> THEN FALSE
    ELSE LET first_date == Head(days_needed)[1]
         IN  IF check_slot_conflicts(first_day_start_time, first_day_close_time, first_date, first_day_appointments, tech_id, TRUE, indexed_first_day)
             THEN FALSE
             ELSE subsequent_days_free(tech_id, Tail(days_needed),
                                       future_appointments, config)

----------------------------------------------------------------------------
(* Slot generator *)

\* The generator's loop with <= in place of <: a start at close is emitted.
RECURSIVE slot_starts_loop_closed(_, _, _)
slot_starts_loop_closed(current, close_dt, interval) ==
    IF current <= close_dt
    THEN <<current % (24 * 60)>> \o slot_starts_loop_closed(current + interval, close_dt, interval)
    ELSE <<>>

\* The generator's loop emitting only starts whose interval fits before close.
RECURSIVE slot_starts_loop_fitting(_, _, _)
slot_starts_loop_fitting(current, close_dt, interval) ==
    IF current + interval <= close_dt
    THEN <<current % (24 * 60)>> \o slot_starts_loop_fitting(current + interval, close_dt, interval)
    ELSE <<>>

\* while current < close_dt: starts.append(current.time()); current += interval
RECURSIVE slot_starts_loop(_, _, _)
slot_starts_loop(current, close_dt, interval) ==
    IF current < close_dt
    THEN <<current % (24 * 60)>> \o slot_starts_loop(current + interval, close_dt, interval)
    ELSE <<>>

generate_slot_start_times(business_hours, slot_interval_minutes) ==
    IF ~is_open(business_hours) THEN <<>>
    ELSE slot_starts_loop(business_hours.open_time, business_hours.close_time,
                          slot_interval_minutes)

\* while current + slot_delta <= close_dt: slots.append((current.time(),
\* slot_end.time())); current = slot_end
RECURSIVE time_slots_loop(_, _, _)
time_slots_loop(current, close_dt, slot_delta) ==
    IF current + slot_delta <= close_dt
    THEN <<<<current % (24 * 60), (current + slot_delta) % (24 * 60)>>>>
         \o time_slots_loop(current + slot_delta, close_dt, slot_delta)
    ELSE <<>>

generate_time_slots(business_hours, slot_duration_minutes) ==
    IF ~is_open(business_hours) THEN <<>>
    ELSE time_slots_loop(business_hours.open_time, business_hours.close_time,
                         slot_duration_minutes)

----------------------------------------------------------------------------
(* Availability engine *)

TimeSlot(start, end, available_tech_ids) ==
    [start |-> start, end |-> end, available_techs |-> Len(available_tech_ids),
     available_tech_ids |-> available_tech_ids]

\* for tech_id in tech_ids: if is_available: available_tech_ids.append(tech_id)
RECURSIVE calculate_multiday_slot_availability(_, _, _, _, _, _, _, _)
calculate_multiday_slot_availability(tech_ids, days_needed, first_day_appointments, first_day_start_time, business_hours, future_appointments, config, indexed_appointments) ==
    IF tech_ids = <<>> THEN <<>>
    ELSE LET tech_id == Head(tech_ids)
             rest == calculate_multiday_slot_availability(Tail(tech_ids), days_needed, first_day_appointments, first_day_start_time, business_hours, future_appointments, config, indexed_appointments)
         IN  IF check_tech_multiday_availability(tech_id, days_needed, first_day_appointments, first_day_start_time, business_hours.close_time, future_appointments, config, indexed_appointments)
             THEN <<tech_id>> \o rest
             ELSE rest

\* The same-day loop with its test inverted: the busy technicians are kept.
RECURSIVE same_day_available_inverted(_, _, _, _, _, _)
same_day_available_inverted(tech_ids, slot_start, slot_end, date, appointments, indexed_appointments) ==
    IF tech_ids = <<>> THEN <<>>
    ELSE LET tech_id == Head(tech_ids)
             rest == same_day_available_inverted(Tail(tech_ids), slot_start, slot_end, date, appointments, indexed_appointments)
         IN  IF check_slot_conflicts(slot_start, slot_end, date, appointments, tech_id, TRUE, indexed_appointments)
             THEN <<tech_id>> \o rest
             ELSE rest

\* The same-day branch's loop over tech_ids (lines 498-504).
RECURSIVE same_day_available(_, _, _, _, _, _)
same_day_available(tech_ids, slot_start, slot_end, date, appointments, indexed_appointments) ==
    IF tech_ids = <<>> THEN <<>>
    ELSE LET tech_id == Head(tech_ids)
             rest == same_day_available(Tail(tech_ids), slot_start, slot_end, date, appointments, indexed_appointments)
         IN  IF ~check_slot_conflicts(slot_start, slot_end, date, appointments, tech_id, TRUE, indexed_appointments)
             THEN <<tech_id>> \o rest
             ELSE rest

\* The append without its guard: a slot is emitted whoever is free.
emit_slot_always(available_tech_ids, start, end) ==
    <<TimeSlot(start, end, available_tech_ids)>>

\* if available_tech_ids: available_slots.append(TimeSlot(...))
emit_slot(available_tech_ids, start, end) ==
    IF available_tech_ids # <<>>
    THEN <<TimeSlot(start, end, available_tech_ids)>>
    ELSE <<>>

\* The iteration with a multi-day slot's end computed as start + duration.
slots_for_start_end_by_duration(slot_start, date, tech_ids, appointments, config, slot_duration_minutes, future_appointments, business_hours, indexed_appointments) ==
    LET days_needed == calculate_days_needed(slot_duration_minutes, date, slot_start, config)
        slot_end == time_plus(slot_start, slot_duration_minutes)
    IN  IF days_needed.kind # "plan" THEN <<>>
        ELSE IF Len(days_needed.days) > 1
        THEN emit_slot(calculate_multiday_slot_availability(tech_ids, days_needed.days, appointments, slot_start, business_hours, future_appointments, config, indexed_appointments), slot_start, slot_end)
        ELSE emit_slot(same_day_available(tech_ids, slot_start, slot_end, date, appointments, indexed_appointments), slot_start, slot_end)

\* One iteration of "for slot_start in slot_starts": the slots it appends.
slots_for_start(slot_start, date, tech_ids, appointments, config, slot_duration_minutes, future_appointments, business_hours, indexed_appointments) ==
    LET days_needed == calculate_days_needed(slot_duration_minutes, date, slot_start, config)
    IN  IF days_needed.kind # "plan" THEN <<>>    \* None: continue
        ELSE IF Len(days_needed.days) > 1
        THEN emit_slot(calculate_multiday_slot_availability(tech_ids, days_needed.days, appointments, slot_start, business_hours, future_appointments, config, indexed_appointments), slot_start, business_hours.close_time)
        ELSE LET slot_end == time_plus(slot_start, slot_duration_minutes)
             IN  emit_slot(same_day_available(tech_ids, slot_start, slot_end, date, appointments, indexed_appointments), slot_start, slot_end)

RECURSIVE slots_loop(_, _, _, _, _, _, _, _, _)
slots_loop(slot_starts, date, tech_ids, appointments, config, slot_duration_minutes, future_appointments, business_hours, indexed_appointments) ==
    IF slot_starts = <<>> THEN <<>>
    ELSE slots_for_start(Head(slot_starts), date, tech_ids, appointments, config, slot_duration_minutes, future_appointments, business_hours, indexed_appointments)
         \o slots_loop(Tail(slot_starts), date, tech_ids, appointments, config, slot_duration_minutes, future_appointments, business_hours, indexed_appointments)

DefaultSlotInterval == 60

\* config.get("slot_interval_minutes", 60)
slot_interval_of(config) ==
    IF config.has_slot_interval THEN config.slot_interval_minutes
    ELSE DefaultSlotInterval

\* slot_duration_minutes and future_appointments are always passed here.
calculate_available_slots(date, tech_ids, appointments, config, slot_duration_minutes, future_appointments) ==
    LET business_hours == get_business_hours(config, date)
    IN  IF ~is_open(business_hours) THEN <<>>
        ELSE LET indexed_appointments == index_appointments_by_tech(appointments)
                 slot_starts == generate_slot_start_times(business_hours, slot_interval_of(config))
             IN  slots_loop(slot_starts, date, tech_ids, appointments, config, slot_duration_minutes, future_appointments, business_hours, indexed_appointments)

\* The loop of is_slot_available collecting the free technicians in reverse.
RECURSIVE free_techs_reversed(_, _, _, _, _)
free_techs_reversed(tech_ids, slot_start, slot_end, date, appointments) ==
    IF tech_ids = <<>> THEN <<>>
    ELSE LET tech_id == Head(tech_ids)
             rest == free_techs_reversed(Tail(tech_ids), slot_start, slot_end, date, appointments)
         IN  IF ~check_slot_conflicts(slot_start, slot_end, date, appointments, tech_id, FALSE, <<>>)
             THEN rest \o <<tech_id>>
             ELSE rest

\* The loop of is_slot_available: the tech_ids without a conflict, in order.
RECURSIVE free_techs(_, _, _, _, _)
free_techs(tech_ids, slot_start, slot_end, date, appointments) ==
    IF tech_ids = <<>> THEN <<>>
    ELSE LET tech_id == Head(tech_ids)
             rest == free_techs(Tail(tech_ids), slot_start, slot_end, date, appointments)
         IN  IF ~check_slot_conflicts(slot_start, slot_end, date, appointments, tech_id, FALSE, <<>>)
             THEN <<tech_id>> \o rest
             ELSE rest

\* Returns <<is_available, available_tech_ids>>.
is_slot_available(date, slot_start, slot_end, tech_ids, appointments) ==
    LET available_tech_ids == free_techs(tech_ids, slot_start, slot_end, date, appointments)
    IN  <<Len(available_tech_ids) > 0, available_tech_ids>>

----------------------------------------------------------------------------
(* Input domains of the engine explorations *)

Techs == {"T1", "T2"}

\* Longest appointment snapshot explored.
MaxAppts == 2

NoInput == [kind |-> "none"]
NoOut == [op |-> "none"]

\* The booking state while the engine alone is explored.
BookingIdle ==
    /\ store = <<>>
    /\ lock_holder = 0
    /\ lock_waiters = <<>>
    /\ round_robin_tracker = <<>>
    /\ pc = <<>>
    /\ request = <<>>
    /\ locals = <<>>
    /\ log = <<>>

----------------------------------------------------------------------------
(* SpecConflict: check_slot_conflicts on bounded snapshots *)

ConflictTimes == {540, 570, 600, 660}

ConflictPool ==
    {Appt("T1", NoTech, IsoTs(0, 540, ""), IsoTs(0, 600, "")),
     Appt("T1", NoTech, IsoTs(0, 570, "Z"), IsoTs(0, 630, "Z")),
     Appt("T2", NoTech, IsoTs(0, 600, "-06:00"), IsoTs(0, 660, "-06:00")),
     Appt(NoTech, "T1", IsoTs(0, 600, ""), IsoTs(0, 660, "")),
     Appt("T2", "T1", IsoTs(0, 540, ""), IsoTs(0, 570, "")),
     Appt(NoTech, NoTech, IsoTs(0, 540, ""), IsoTs(0, 660, "")),
     Appt("T1", NoTech, BadTs, IsoTs(0, 660, "")),
     Appt("T2", NoTech, IsoTs(0, 540, ""), AbsentTs),
     Appt("T1", NoTech, IsoTs(1, 540, ""), IsoTs(1, 600, "")),
     Appt("T2", NoTech, IsoTs(0, 630, ""), IsoTs(1, 540, ""))}

InitConflict ==
    /\ inp \in [kind : {"conflict"}, date : {0},
                appointments : SeqsUpTo(ConflictPool, MaxAppts)]
    /\ out = NoOut
    /\ BookingIdle

CheckConflicts(slot_start, slot_end, tech_id, use_index) ==
    /\ inp.kind = "conflict"
    /\ out' = [op |-> "check_slot_conflicts",
               slot_start |-> slot_start, slot_end |-> slot_end,
               tech_id |-> tech_id,
               res |-> check_slot_conflicts(slot_start, slot_end, inp.date, inp.appointments, tech_id, use_index, IF use_index THEN index_appointments_by_tech(inp.appointments) ELSE <<>>)]
    /\ UNCHANGED <<inp, booking_vars>>

NextConflict ==
    \E slot_start \in ConflictTimes, slot_end \in ConflictTimes,
       tech_id \in Techs, use_index \in BOOLEAN :
        CheckConflicts(slot_start, slot_end, tech_id, use_index)

SpecConflict == InitConflict /\ [][NextConflict]_vars

----------------------------------------------------------------------------
(* SpecSnapshot: the same snapshots, each put once through the indexed and *)
(* the plain conflict check or through is_slot_available                   *)

\* Both access patterns of check_slot_conflicts on the same arguments, as
\* calculate_available_slots (with the index) and is_slot_available (without)
\* call it.
CompareIndexed(slot_start, slot_end, tech_id) ==
    /\ inp.kind = "conflict"
    /\ out = NoOut
    /\ out' = [op |-> "compare_indexed",
               slot_start |-> slot_start, slot_end |-> slot_end,
               tech_id |-> tech_id,
               indexed_appointments |-> index_appointments_by_tech(inp.appointments),
               with_index |-> check_slot_conflicts(slot_start, slot_end, inp.date, inp.appointments, tech_id, TRUE, index_appointments_by_tech(inp.appointments)),
               without_index |-> check_slot_conflicts(slot_start, slot_end, inp.date, inp.appointments, tech_id, FALSE, <<>>)]
    /\ UNCHANGED <<inp, booking_vars>>

SlotTechLists == {<<>>, <<"T1">>, <<"T1", "T2">>, <<"T2", "T1">>}

\* is_slot_available on the snapshot, and on the snapshot without the
\* appointments whose timestamps are missing or malformed.
CheckSlotAvailable(slot_start, slot_end, tech_ids) ==
    /\ inp.kind = "conflict"
    /\ out = NoOut
    /\ out' = [op |-> "is_slot_available",
               slot_start |-> slot_start, slot_end |-> slot_end,
               tech_ids |-> tech_ids,
               res |-> is_slot_available(inp.date, slot_start, slot_end, tech_ids, inp.appointments),
               res_parseable_only |-> is_slot_available(inp.date, slot_start, slot_end, tech_ids, SelectSeq(inp.appointments, LAMBDA a : a.startDate.kind = "iso" /\ a.endDate.kind = "iso"))]
    /\ UNCHANGED <<inp, booking_vars>>

NextSnapshot ==
    \/ \E slot_start \in ConflictTimes, slot_end \in ConflictTimes,
          tech_id \in Techs :
           CompareIndexed(slot_start, slot_end, tech_id)
    \/ \E slot_start \in ConflictTimes, slot_end \in ConflictTimes,
          tech_ids \in SlotTechLists :
           CheckSlotAvailable(slot_start, slot_end, tech_ids)

SpecSnapshot == InitConflict /\ [][NextSnapshot]_vars

(* Declarative reading of an appointment, independent of the code's parse. *)
AbsMinutes(d, m) == d * 24 * 60 + m

Parseable(appt) == appt.startDate.kind = "iso" /\ appt.endDate.kind = "iso"

AttributedTo(appt, tech) ==
    \/ appt.technicianId = tech
    \/ appt.technicianId = NoTech /\ appt.userId = tech

\* appt occupies some instant of [date:from, date:to) in the half-open sense
Intersects(appt, date, from, to) ==
    /\ Parseable(appt)
    /\ AbsMinutes(appt.startDate.d, appt.startDate.m) < AbsMinutes(date, to)
    /\ AbsMinutes(date, from) < AbsMinutes(appt.endDate.d, appt.endDate.m)

\* Some appointment of the snapshot attributed to tech intersects the interval.
Busy(appointments, tech, date, from, to) ==
    \E i \in 1..Len(appointments) :
        AttributedTo(appointments[i], tech)
        /\ Intersects(appointments[i], date, from, to)

\* appt touches [from, to) only at a boundary
TouchesOnly(appt, date, from, to) ==
    /\ Parseable(appt)
    /\ \/ AbsMinutes(appt.endDate.d, appt.endDate.m) = AbsMinutes(date, from)
       \/ AbsMinutes(appt.startDate.d, appt.startDate.m) = AbsMinutes(date, to)

\* C2: check_slot_conflicts returns true iff some parseable appointment
\* attributed to the technician satisfies appt_start < slot_end and
\* slot_start < appt_end; a snapshot whose appointments of the technician only
\* touch the slot at a boundary, and an empty snapshot, never conflict.
C2_ConflictIffOverlap ==
    out.op = "check_slot_conflicts" =>
        /\ out.res = Busy(inp.appointments, out.tech_id, inp.date,
                          out.slot_start, out.slot_end)
        /\ inp.appointments = <<>> => ~out.res
        /\ (\A i \in 1..Len(inp.appointments) :
               AttributedTo(inp.appointments[i], out.tech_id)
               /\ Parseable(inp.appointments[i])
               => TouchesOnly(inp.appointments[i], inp.date, out.slot_start,
                              out.slot_end))
           => ~out.res

\* A technician's appointment ends exactly where the slot starts, and the
\* check has answered "no conflict".
C2_Witness ==
    /\ out.op = "check_slot_conflicts"
    /\ ~out.res
    /\ out.slot_start < out.slot_end
    /\ \E i \in 1..Len(inp.appointments) :
          /\ AttributedTo(inp.appointments[i], out.tech_id)
          /\ TouchesOnly(inp.appointments[i], inp.date, out.slot_start,
                         out.slot_end)

\* C15: on every appointment list, technician, date and interval,
\* check_slot_conflicts with indexed_appointments =
\* index_appointments_by_tech(appointments) returns what it returns without
\* an index on the full list.
C15_IndexPreservesConflicts ==
    out.op = "compare_indexed" => out.with_index = out.without_index

\* A snapshot with two appointments of the technician, the first of which
\* conflicts with the slot and the second of which does not.
C15_Witness ==
    /\ out.op = "compare_indexed"
    /\ out.with_index /\ out.without_index
    /\ Len(inp.appointments) = 2
    /\ \A i \in 1..2 : AttributedTo(inp.appointments[i], out.tech_id)
    /\ Intersects(inp.appointments[1], inp.date, out.slot_start, out.slot_end)
    /\ ~Intersects(inp.appointments[2], inp.date, out.slot_start, out.slot_end)

\* The appointments of the snapshot that carry a technician field.
Attributable(appointments) ==
    SelectSeq(appointments, LAMBDA a : a.technicianId # NoTech \/ a.userId # NoTech)

\* C16: the index lists every appointment under exactly one technician, its
\* technicianId when present and its userId otherwise, in snapshot order;
\* an appointment with neither field is in no technician's list, and the
\* conflict answer for every technician is the answer on the snapshot
\* without such appointments.
C16_AttributionToOneTechnician ==
    out.op = "compare_indexed" =>
        LET indexed == out.indexed_appointments
        IN  /\ NoTech \notin DOMAIN indexed
            /\ \A k \in DOMAIN indexed :
                   /\ indexed[k] # <<>>
                   /\ indexed[k] = SelectSeq(inp.appointments,
                                             LAMBDA a : AttributedTo(a, k))
            /\ \A i \in 1..Len(inp.appointments) :
                   LET a == inp.appointments[i]
                       owner == IF a.technicianId # NoTech THEN a.technicianId
                                ELSE a.userId
                   IN  {k \in DOMAIN indexed : a \in Range(indexed[k])}
                           = IF owner = NoTech THEN {} ELSE {owner}
            /\ out.with_index = Busy(Attributable(inp.appointments), out.tech_id,
                                     inp.date, out.slot_start, out.slot_end)
            /\ out.without_index = out.with_index

\* A snapshot holding an appointment with neither field that spans the slot
\* and an appointment with both fields: no conflict is reported to the
\* technician named by the legacy field only.
C16_Witness ==
    /\ out.op = "compare_indexed"
    /\ inp.appointments =
           <<Appt(NoTech, NoTech, IsoTs(0, 540, ""), IsoTs(0, 660, "")),
             Appt("T2", "T1", IsoTs(0, 540, ""), IsoTs(0, 570, ""))>>
    /\ out.tech_id = "T1"
    /\ out.slot_start = 540 /\ out.slot_end = 600
    /\ ~out.with_index
    /\ DOMAIN out.indexed_appointments = {"T2"}

\* C17: an appointment whose start or end timestamp is missing or malformed
\* is skipped: the free technicians is_slot_available reports are those it
\* reports on the snapshot with such appointments removed, and a snapshot
\* made of such appointments only leaves every technician free.
C17_UnparseableAppointmentSkipped ==
    out.op = "is_slot_available" =>
        /\ out.res = out.res_parseable_only
        /\ (\A i \in 1..Len(inp.appointments) : ~Parseable(inp.appointments[i]))
               => out.res[2] = out.tech_ids

\* A snapshot holding T1's appointment with a malformed start and T2's
\* appointment with no end: both technicians are reported free.
C17_Witness ==
    /\ out.op = "is_slot_available"
    /\ inp.appointments =
           <<Appt("T1", NoTech, BadTs, IsoTs(0, 660, "")),
             Appt("T2", NoTech, IsoTs(0, 540, ""), AbsentTs)>>
    /\ out.tech_ids = <<"T1", "T2">>
    /\ out.slot_start = 540 /\ out.slot_end = 600
    /\ out.res = <<TRUE, <<"T1", "T2">>>>

\* C18: is_slot_available returns (is_available, free) where free is the
\* sub-list of tech_ids, in input order, of the technicians none of whose
\* appointments overlaps [start, end) on the date, and is_available is true
\* iff free is not empty.
C18_FreeTechniciansInOrder ==
    out.op = "is_slot_available" =>
        /\ out.res[2] = SelectSeq(out.tech_ids,
                            LAMBDA t : ~Busy(inp.appointments, t, inp.date,
                                             out.slot_start, out.slot_end))
        /\ out.res[1] = (out.res[2] # <<>>)

\* Technicians given as T2, T1, with T1 busy in the slot and a second
\* appointment in the snapshot: T2 alone is reported free.
C18_Witness ==
    /\ out.op = "is_slot_available"
    /\ out.tech_ids = <<"T2", "T1">>
    /\ out.slot_start = 540 /\ out.slot_end = 600
    /\ Len(inp.appointments) = 2
    /\ Busy(inp.appointments, "T1", inp.date, out.slot_start, out.slot_end)
    /\ out.res = <<TRUE, <<"T2">>>>

\* Both technicians free, given as T2, T1: reported in that order.
SlotAvailable_OrderKept ==
    /\ out.op = "is_slot_available"
    /\ out.tech_ids = <<"T2", "T1">>
    /\ out.res = <<TRUE, <<"T2", "T1">>>>

----------------------------------------------------------------------------
(* Configurations explored *)

Config(business_hours) ==
    [business_hours |-> business_hours, has_slot_interval |-> FALSE,
     slot_interval_minutes |-> 0]

\* Monday 09:00-11:00 only.
CfgA == Config("monday" :> DayHours(<<9, 0>>, <<11, 0>>))

\* Monday and Tuesday 09:00-17:00.
CfgB ==
    Config("monday" :> DayHours(<<9, 0>>, <<17, 0>>)
           @@ "tuesday" :> DayHours(<<9, 0>>, <<17, 0>>))

\* Monday 09:00-10:00 only.
CfgC == Config("monday" :> DayHours(<<9, 0>>, <<10, 0>>))

\* Monday 09:00-17:00, Tuesday null, Wednesday 09:00-12:00, Thursday without
\* a close time; slot starts every 120 minutes.
CfgD ==
    [business_hours |->
        "monday" :> DayHours(<<9, 0>>, <<17, 0>>)
        @@ "tuesday" :> NullDay
        @@ "wednesday" :> DayHours(<<9, 0>>, <<12, 0>>)
        @@ "thursday" :> DayHours(<<9, 0>>, <<>>),
     has_slot_interval |-> TRUE, slot_interval_minutes |-> 120]

Configs == {CfgA, CfgB, CfgC, CfgD}

\* Monday 09:00-17:00, Tuesday 09:00-09:00 (no minutes), Wednesday 13:00-12:00
\* (close before open): accepted by validate_config, which checks the format of
\* each time only.
CfgE ==
    Config("monday" :> DayHours(<<9, 0>>, <<17, 0>>)
           @@ "tuesday" :> DayHours(<<9, 0>>, <<9, 0>>)
           @@ "wednesday" :> DayHours(<<13, 0>>, <<12, 0>>))

\* A schedule with no open day: Monday null, Tuesday without a close time.
CfgClosed ==
    Config("monday" :> NullDay @@ "tuesday" :> DayHours(<<9, 0>>, <<>>))

----------------------------------------------------------------------------
(* SpecGen: generate_slot_start_times on bounded hours and intervals *)

GenTimes == {0, 540, 600, 630, 1410}

GenIntervals == {15, 30, 45, 60, 90}

InitGen ==
    /\ inp \in [kind : {"gen"},
                open_time : GenTimes \cup {NoneTime},
                close_time : GenTimes \cup {NoneTime},
                interval : GenIntervals]
    /\ out = NoOut
    /\ BookingIdle

GenerateStarts ==
    /\ inp.kind = "gen"
    /\ out' = [op |-> "generate_slot_start_times",
               res |-> generate_slot_start_times(
                           BusinessHours(inp.open_time, inp.close_time),
                           inp.interval)]
    /\ UNCHANGED <<inp, booking_vars>>

NextGen == GenerateStarts

SpecGen == InitGen /\ [][NextGen]_vars

\* C10: for open hours and a positive interval every generated start is
\* >= open_time and < close_time, the first one is open_time (one exists
\* whenever open_time < close_time) and consecutive starts differ by exactly
\* the interval.
C10_StartsWithinHours ==
    (out.op = "generate_slot_start_times"
     /\ inp.open_time # NoneTime /\ inp.close_time # NoneTime) =>
        LET starts == out.res
        IN  /\ \A i \in 1..Len(starts) :
                   starts[i] >= inp.open_time /\ starts[i] < inp.close_time
            /\ inp.open_time < inp.close_time => Len(starts) >= 1
            /\ Len(starts) >= 1 => starts[1] = inp.open_time
            /\ \A i \in 1..(Len(starts) - 1) :
                   starts[i + 1] - starts[i] = inp.interval

\* Hours whose length is a multiple of the interval: the generator has run,
\* emitted several starts, and close_time itself would have been the next.
C10_Witness ==
    /\ out.op = "generate_slot_start_times"
    /\ inp.open_time # NoneTime /\ inp.close_time # NoneTime
    /\ Len(out.res) >= 2
    /\ out.res[Len(out.res)] + inp.interval = inp.close_time

\* C11 as stated: for open hours no emitted start plus the interval exceeds
\* close_time.
C11_StartPlusIntervalWithinClose ==
    (out.op = "generate_slot_start_times"
     /\ inp.open_time # NoneTime /\ inp.close_time # NoneTime) =>
        \A i \in 1..Len(out.res) : out.res[i] + inp.interval <= inp.close_time

\* C11 amended: for open hours every emitted start but the last has
\* start + interval < close_time; the last emitted start has
\* start + interval >= close_time, with equality exactly when the interval
\* divides close_time - open_time, so the last start plus the interval
\* exceeds close_time whenever it does not.
C11_LastStartMayOverrunClose ==
    (out.op = "generate_slot_start_times"
     /\ inp.open_time # NoneTime /\ inp.close_time # NoneTime
     /\ Len(out.res) >= 1) =>
        LET starts == out.res
            last == starts[Len(starts)]
        IN  /\ \A i \in 1..(Len(starts) - 1) :
                   starts[i] + inp.interval < inp.close_time
            /\ last + inp.interval >= inp.close_time
            /\ last + inp.interval = inp.close_time
                   <=> (inp.close_time - inp.open_time) % inp.interval = 0

\* Hours 09:00-10:00 with a 45-minute interval: 09:45 is emitted and
\* 09:45 + 45 lies after close.
C11_Witness ==
    /\ out.op = "generate_slot_start_times"
    /\ inp.open_time = 540 /\ inp.close_time = 600 /\ inp.interval = 45
    /\ out.res = <<540, 585>>
    /\ out.res[2] + inp.interval > inp.close_time

----------------------------------------------------------------------------
(* SpecPlan: calculate_days_needed on bounded inputs *)

PlanDates == {0, 1, 2, 6}

PlanStartTimes == {540, 600, 960, 1020}

PlanDurations == {30, 60, 120, 480, 600}

InitPlan ==
    /\ inp \in [kind : {"plan"}, config : Configs \cup {CfgE}, date : PlanDates,
                start_time : PlanStartTimes, duration : PlanDurations]
    /\ out = NoOut
    /\ BookingIdle

PlanDays ==
    /\ inp.kind = "plan"
    /\ out' = [op |-> "calculate_days_needed",
               res |-> calculate_days_needed(inp.duration, inp.date,
                                             inp.start_time, inp.config)]
    /\ UNCHANGED <<inp, booking_vars>>

NextPlan == PlanDays

SpecPlan == InitPlan /\ [][NextPlan]_vars

\* Every plan explored is returned within MaxPlanDays iterations.
PlanReturns == out.op = "calculate_days_needed" => out.res.kind # "diverges"

\* C6: when the duration does not fit between the start time and the close of
\* the start day, the minutes_required of the returned DaySpans sum to the
\* duration exactly (600 minutes from Monday 09:00 with 09:00-17:00 days:
\* 480 + 120).
C6_PlanConservesDuration ==
    (out.op = "calculate_days_needed" /\ out.res.kind = "plan") =>
        LET close_time == get_business_hours(inp.config, inp.date).close_time
        IN  /\ inp.duration > close_time - inp.start_time
               => SumMinutes(out.res.days) = inp.duration
            /\ (inp.config = CfgB /\ inp.date = 0 /\ inp.start_time = 540
                /\ inp.duration = 600)
               => out.res.days = <<<<0, 480>>, <<1, 120>>>>

\* A plan of several days has been returned whose last day is only partly used.
C6_Witness ==
    /\ out.op = "calculate_days_needed"
    /\ out.res.kind = "plan"
    /\ Len(out.res.days) >= 2
    /\ inp.config = CfgB /\ inp.date = 0 /\ inp.start_time = 540
    /\ inp.duration = 600

----------------------------------------------------------------------------
(* SpecEngine: calculate_available_slots on bounded inputs *)

EngineDates == {0, 1}

EngineDurations == {60, 90, 600}

EngineTechLists == {<<>>, <<"T1">>, <<"T1", "T2">>}

\* The day's snapshots are the sub-lists of this list (vendor order kept).
EnginePool ==
    <<Appt("T1", NoTech, IsoTs(0, 540, ""), IsoTs(0, 600, "")),
      Appt("T1", NoTech, IsoTs(0, 570, "Z"), IsoTs(0, 630, "Z")),
      Appt("T2", NoTech, IsoTs(0, 540, ""), IsoTs(0, 600, "")),
      Appt("T1", NoTech, IsoTs(0, 960, ""), IsoTs(0, 1020, "")),
      Appt(NoTech, "T2", IsoTs(1, 540, ""), IsoTs(1, 600, ""))>>

NoFuture == [k \in {} |-> <<>>]

\* Scenario D's future snapshot: T1 booked 09:00-10:00 on Tuesday (day 1).
FutureD == 1 :> <<Appt("T1", NoTech, IsoTs(1, 540, ""), IsoTs(1, 600, ""))>>

FutureOptions ==
    {NoFuture,
     FutureD,
     1 :> <<Appt("T1", NoTech, IsoTs(1, 540, ""), IsoTs(1, 600, "")),
            Appt("T2", NoTech, IsoTs(1, 600, ""), IsoTs(1, 660, ""))>>,
     2 :> <<Appt("T2", NoTech, IsoTs(2, 540, ""), IsoTs(2, 600, ""))>>,
     7 :> <<Appt("T1", NoTech, IsoTs(7, 540, ""), IsoTs(7, 600, ""))>>}

InitEngine ==
    /\ inp \in [kind : {"engine"}, config : Configs, date : EngineDates,
                tech_ids : EngineTechLists, duration : EngineDurations,
                appointments : SubListsUpTo(EnginePool, MaxAppts),
                future_appointments : FutureOptions]
    /\ out = NoOut
    /\ BookingIdle

ComputeSlots ==
    /\ inp.kind = "engine"
    /\ out' = [op |-> "calculate_available_slots",
               res |-> calculate_available_slots(inp.date, inp.tech_ids, inp.appointments, inp.config, inp.duration, inp.future_appointments)]
    /\ UNCHANGED <<inp, booking_vars>>

NextEngine == ComputeSlots

SpecEngine == InitEngine /\ [][NextEngine]_vars

(* Declarative reading of the engine's inputs. *)

EngineHours == get_business_hours(inp.config, inp.date)

\* The candidate starts: open, open + interval, ... strictly before close.
Candidates ==
    {s \in EngineHours.open_time..(EngineHours.close_time - 1) :
        (s - EngineHours.open_time) % slot_interval_of(inp.config) = 0}

PlanFor(s) == calculate_days_needed(inp.duration, inp.date, s, inp.config)

\* T has no appointment in the window the plan requires on its j-th day (j > 1).
FreeOnLaterDay(T, days, j) ==
    LET date == days[j][1]
        open_time == get_business_hours(inp.config, date).open_time
    IN  ~Busy(future_get(inp.future_appointments, date), T, date,
              open_time, open_time + days[j][2])

\* T is conflict-free for the whole plan of candidate s.
FreeForPlan(T, s) ==
    LET days == PlanFor(s).days
    IN  IF Len(days) = 1
        THEN ~Busy(inp.appointments, T, inp.date, s, s + inp.duration)
        ELSE /\ ~Busy(inp.appointments, T, inp.date, s, EngineHours.close_time)
             /\ \A j \in 2..Len(days) : FreeOnLaterDay(T, days, j)

\* The technicians listed for candidate s in the result (none if no slot).
ListedFor(s) ==
    UNION {Range(out.res[i].available_tech_ids) :
              i \in {k \in 1..Len(out.res) : out.res[k].start = s}}

Engine_PlansReturn ==
    out.op = "calculate_available_slots" /\ is_open(EngineHours) =>
        \A s \in Candidates : PlanFor(s).kind # "diverges"

\* C3: for a same-day service, a technician of tech_ids is listed in an
\* emitted slot iff [start, start + duration) intersects none of the
\* technician's appointments on the date.
C3_SameDayTechListedIffFree ==
    out.op = "calculate_available_slots" =>
        \A i \in 1..Len(out.res) :
            LET slot == out.res[i]
            IN  slot.start + inp.duration <= EngineHours.close_time =>
                    \A T \in Range(inp.tech_ids) :
                        T \in Range(slot.available_tech_ids)
                        <=> ~Busy(inp.appointments, T, inp.date, slot.start,
                                  slot.start + inp.duration)

\* A same-day slot was emitted that leaves out a busy technician and lists a
\* free one.
C3_Witness ==
    /\ out.op = "calculate_available_slots"
    /\ \E i \in 1..Len(out.res) :
          /\ out.res[i].start + inp.duration <= EngineHours.close_time
          /\ out.res[i].available_tech_ids = <<"T2">>
          /\ inp.tech_ids = <<"T1", "T2">>
          /\ Busy(inp.appointments, "T1", inp.date, out.res[i].start,
                  out.res[i].start + inp.duration)

\* C4: a candidate start with a feasible plan yields a slot iff some
\* technician is conflict-free for the whole plan; no slot has an empty
\* technician list; with no appointments and a technician every candidate
\* yields a slot (hours 09:00-11:00, duration 60, T1: 09:00-10:00 and
\* 10:00-11:00; with T1 booked 09:00-10:00 only 10:00-11:00).
C4_SlotIffSomeTechFree ==
    out.op = "calculate_available_slots" /\ is_open(EngineHours) =>
        /\ \A i \in 1..Len(out.res) :
               /\ out.res[i].available_tech_ids # <<>>
               /\ out.res[i].start \in Candidates
        /\ \A s \in Candidates :
               PlanFor(s).kind = "plan" =>
                   ((\E i \in 1..Len(out.res) : out.res[i].start = s)
                    <=> \E T \in Range(inp.tech_ids) : FreeForPlan(T, s))
        /\ (inp.appointments = <<>> /\ inp.future_appointments = NoFuture
            /\ inp.tech_ids # <<>>)
           => \A s \in Candidates : \E i \in 1..Len(out.res) : out.res[i].start = s
        /\ (inp.config = CfgA /\ inp.date = 0 /\ inp.duration = 60
            /\ inp.tech_ids = <<"T1">>) =>
               /\ inp.appointments = <<>>
                  => out.res = <<TimeSlot(540, 600, <<"T1">>),
                                 TimeSlot(600, 660, <<"T1">>)>>
               /\ inp.appointments = <<Appt("T1", NoTech, IsoTs(0, 540, ""), IsoTs(0, 600, ""))>>
                  => out.res = <<TimeSlot(600, 660, <<"T1">>)>>

\* A candidate was dropped because every technician was busy while another
\* candidate of the same day was emitted.
C4_Witness ==
    /\ out.op = "calculate_available_slots"
    /\ is_open(EngineHours)
    /\ inp.tech_ids # <<>>
    /\ Len(out.res) >= 1
    /\ \E s \in Candidates :
          /\ PlanFor(s).kind = "plan"
          /\ \A i \in 1..Len(out.res) : out.res[i].start # s

\* C5: for a multi-day plan a technician is listed for the candidate iff they
\* have no conflict on day 1 over [start, close) and, for every later DaySpan,
\* none over [open, open + minutes_required) in that date's snapshot of
\* future_appointments (a missing key: no appointments).  Scenario D: T1's
\* Tuesday 09:00-10:00 appointment removes T1 from the Monday 09:00 candidate
\* of a 600-minute service.
C5_MultiDayTechListedIffAllDaysFree ==
    out.op = "calculate_available_slots" /\ is_open(EngineHours) =>
        /\ \A s \in Candidates :
               (PlanFor(s).kind = "plan" /\ Len(PlanFor(s).days) > 1) =>
                   \A T \in Range(inp.tech_ids) :
                       T \in ListedFor(s) <=> FreeForPlan(T, s)
        /\ (inp.config = CfgB /\ inp.date = 0 /\ inp.duration = 600
            /\ inp.future_appointments = FutureD)
           => "T1" \notin ListedFor(540)

\* Scenario D has been computed: T1 is free all Monday, busy on Tuesday
\* 09:00-10:00, and the Monday 09:00 slot lists T2 only.
C5_Witness ==
    /\ out.op = "calculate_available_slots"
    /\ inp.config = CfgB /\ inp.date = 0 /\ inp.duration = 600
    /\ inp.future_appointments = FutureD
    /\ inp.tech_ids = <<"T1", "T2">>
    /\ inp.appointments = <<>>
    /\ ListedFor(540) = {"T2"}

\* C13: every emitted TimeSlot starts at a candidate start, no two slots
\* share a start, and its end is the close time of the date when the
\* duration does not fit before close (the plan spans several days), and
\* start + duration otherwise; its technician count is the length of its
\* technician list.
C13_SlotStartAndEnd ==
    out.op = "calculate_available_slots" =>
        \A i \in 1..Len(out.res) :
            LET slot == out.res[i]
            IN  /\ slot.start \in Candidates
                /\ \A j \in 1..Len(out.res) : out.res[j].start = slot.start => j = i
                /\ slot.end = IF slot.start + inp.duration > EngineHours.close_time
                              THEN EngineHours.close_time
                              ELSE slot.start + inp.duration
                /\ slot.available_techs = Len(slot.available_tech_ids)

\* Scenario C: a 600-minute service on Monday 09:00-17:00 with T1 free
\* yields a slot 09:00-17:00 that lists T1.
C13_Witness ==
    /\ out.op = "calculate_available_slots"
    /\ inp.config = CfgB /\ inp.date = 0 /\ inp.duration = 600
    /\ inp.tech_ids = <<"T1">>
    /\ inp.appointments = <<>>
    /\ inp.future_appointments = NoFuture
    /\ \E i \in 1..Len(out.res) :
           /\ out.res[i].start = 540
           /\ out.res[i].end = 1020
           /\ out.res[i].available_tech_ids = <<"T1">>

\* C25: for every slot the engine emits, is_slot_available on the slot's
\* start and end with the same first-day snapshot returns exactly the
\* slot's available_tech_ids.
C25_RevalidationMatchesEngine ==
    out.op = "calculate_available_slots" =>
        \A i \in 1..Len(out.res) :
            is_slot_available(inp.date, out.res[i].start, out.res[i].end, inp.tech_ids,
                              inp.appointments)[2] = out.res[i].available_tech_ids

\* What does hold: the re-validation reports every technician of the slot
\* free, and exactly those when the slot ends on its first day.
Revalidation_ContainsEngineTechs ==
    out.op = "calculate_available_slots" =>
        \A i \in 1..Len(out.res) :
            LET slot == out.res[i]
                free == is_slot_available(inp.date, slot.start, slot.end, inp.tech_ids,
                                          inp.appointments)[2]
            IN  /\ Range(slot.available_tech_ids) \subseteq Range(free)
                /\ slot.start + inp.duration <= EngineHours.close_time =>
                      free = slot.available_tech_ids

\* A 600-minute service from Monday 09:00 continues on Tuesday, where T1 is
\* booked: the engine lists T2 only, the re-validation of the slot reports
\* T1 and T2 free.
Revalidation_ReportsExcludedTech ==
    /\ out.op = "calculate_available_slots"
    /\ inp.future_appointments = FutureD
    /\ inp.appointments = <<>>
    /\ \E i \in 1..Len(out.res) :
          /\ out.res[i].available_tech_ids = <<"T2">>
          /\ is_slot_available(inp.date, out.res[i].start, out.res[i].end, inp.tech_ids,
                               inp.appointments)[2] = <<"T1", "T2">>

----------------------------------------------------------------------------
(* SpecDay: the resolution of one date's hours and what every generator    *)
(* returns for it                                                          *)

DayDates == 0..6

DayStartTimes == {540, 960}

DayDurations == {60, 600}

DayAppointments == {<<>>, <<EnginePool[1]>>, <<EnginePool[1], EnginePool[3]>>}

InitDay ==
    /\ inp \in [kind : {"day"}, config : Configs \cup {CfgE, CfgClosed}, date : DayDates,
                tech_ids : EngineTechLists, duration : DayDurations,
                start_time : DayStartTimes, appointments : DayAppointments]
    /\ out = NoOut
    /\ BookingIdle

ResolveDay ==
    /\ inp.kind = "day"
    /\ LET business_hours == get_business_hours(inp.config, inp.date)
       IN  out' = [op |-> "resolve_day",
                   hours |-> business_hours,
                   starts |-> generate_slot_start_times(business_hours, slot_interval_of(inp.config)),
                   time_slots |-> generate_time_slots(business_hours, inp.duration),
                   slots |-> calculate_available_slots(inp.date, inp.tech_ids, inp.appointments, inp.config, inp.duration, NoFuture),
                   plan |-> calculate_days_needed(inp.duration, inp.date, inp.start_time, inp.config),
                   next_day |-> get_next_business_day(inp.date, inp.config)]
    /\ UNCHANGED <<inp, booking_vars>>

NextDay == ResolveDay

SpecDay == InitDay /\ [][NextDay]_vars

\* The schedule has no entry for the date's weekday, a null entry, or an
\* entry without an open or a close time.
NoHoursConfigured(config, date) ==
    \/ day_name(date) \notin DOMAIN config.business_hours
    \/ config.business_hours[day_name(date)].is_null
    \/ config.business_hours[day_name(date)].open = <<>>
    \/ config.business_hours[day_name(date)].close = <<>>

\* C12: a date whose weekday is absent from the schedule, or lacks an open
\* or a close time, resolves to closed hours; generate_slot_start_times,
\* generate_time_slots and calculate_available_slots return the empty list
\* for it whatever the technicians, appointments and duration, and
\* calculate_days_needed returns None.
C12_ClosedDayYieldsNothing ==
    (out.op = "resolve_day" /\ NoHoursConfigured(inp.config, inp.date)) =>
        /\ out.hours.open_time = NoneTime \/ out.hours.close_time = NoneTime
        /\ out.starts = <<>>
        /\ out.time_slots = <<>>
        /\ out.slots = <<>>
        /\ out.plan.kind = "none"

\* A Sunday, which no schedule lists, asked for two free technicians.
C12_Witness ==
    /\ out.op = "resolve_day"
    /\ inp.date = 6
    /\ day_name(inp.date) \notin DOMAIN inp.config.business_hours
    /\ inp.tech_ids = <<"T1", "T2">>
    /\ inp.appointments = <<>>
    /\ out.slots = <<>>

\* The dates after inp.date, up to seven days on, whose hours are configured.
OpenDatesAhead ==
    {d \in (inp.date + 1)..(inp.date + 7) : ~NoHoursConfigured(inp.config, d)}

\* C14: get_next_business_day returns the earliest open date d' with
\* d < d' <= d + 7, and None iff no date of that window is open; it returns
\* neither d itself nor a closed date.
C14_NextBusinessDayIsEarliestOpen ==
    out.op = "resolve_day" =>
        /\ OpenDatesAhead = {} <=> out.next_day = NoneTime
        /\ out.next_day # NoneTime =>
               /\ out.next_day \in OpenDatesAhead
               /\ \A d \in OpenDatesAhead : out.next_day <= d
               /\ out.next_day # inp.date

\* From an open Monday of a schedule that opens on Mondays only, the next
\* business day is the Monday a week later.
C14_Witness ==
    /\ out.op = "resolve_day"
    /\ inp.config = CfgA /\ inp.date = 0
    /\ ~NoHoursConfigured(inp.config, inp.date)
    /\ out.next_day = 7

\* A schedule with no open day has no next business day.
NextBusinessDay_NoneReached ==
    /\ out.op = "resolve_day"
    /\ inp.config = CfgClosed
    /\ out.next_day = NoneTime

----------------------------------------------------------------------------
(* Start-up (main.py lifespan): the configuration file is loaded and        *)
(* validated, then the vendor clients are constructed, then requests are   *)
(* served.                                                                 *)
(* A loaded configuration is held as the facts validate_config reads:      *)
(* whether it is empty, which required keys it has, whether business_hours *)
(* is a dict, its day entries, and the default duration.  A time string    *)
(* that is not of the form H:M is held as a tuple of another length        *)
(* (<<9>> stands for "9am").                                               *)

MaxServed == 2

\* str.lower() on the keys explored
lower(s) ==
    CASE s = "Monday" -> "monday"
      [] s = "Active" -> "active"
      [] s = "Inactive" -> "inactive"
      [] OTHER -> s

valid_days == {WeekdayNames[i] : i \in 1..7}

\* datetime.strptime(s, "%H:%M") returns rather than raising ValueError
strptime_HM_parses(s) == Len(s) = 2 /\ s[1] \in 0..23 /\ s[2] \in 0..59

RawDay(is_null, is_dict, open_str, close_str) ==
    [is_null |-> is_null, is_dict |-> is_dict, open |-> open_str, close |-> close_str]

\* One pass of the loop over business_hours.items(): does it raise?
day_entry_raises(day, hours) ==
    IF lower(day) \notin valid_days THEN TRUE
    ELSE IF hours.is_null THEN FALSE
    ELSE IF ~hours.is_dict THEN TRUE
    ELSE IF hours.open # <<>> /\ ~strptime_HM_parses(hours.open) THEN TRUE
    ELSE hours.close # <<>> /\ ~strptime_HM_parses(hours.close)

\* validate_config without the final check of the default duration.
validate_config_any_duration(config) ==
    IF config.is_empty THEN "ValueError"
    ELSE IF ~config.has_business_hours THEN "ValueError"
    ELSE IF ~config.has_default_slot_duration_minutes THEN "ValueError"
    ELSE IF ~config.business_hours_is_dict THEN "ValueError"
    ELSE IF \E day \in DOMAIN config.business_hours :
                day_entry_raises(day, config.business_hours[day]) THEN "ValueError"
    ELSE "ok"

validate_config(config) ==
    IF config.is_empty THEN "ValueError"
    ELSE IF ~config.has_business_hours THEN "ValueError"
    ELSE IF ~config.has_default_slot_duration_minutes THEN "ValueError"
    ELSE IF ~config.business_hours_is_dict THEN "ValueError"
    ELSE IF \E day \in DOMAIN config.business_hours :
                day_entry_raises(day, config.business_hours[day]) THEN "ValueError"
    ELSE IF ~config.duration_is_number \/ config.default_slot_duration_minutes <= 0
         THEN "ValueError"
    ELSE "ok"

StartupState(phase, error, validation, config_assigned, shopmonkey_client, sheets_client) ==
    [op |-> "lifespan", phase |-> phase, error |-> error, validation |-> validation,
     config_assigned |-> config_assigned, shopmonkey_client |-> shopmonkey_client,
     sheets_client |-> sheets_client, served |-> 0]

\* lifespan up to its yield.  file is what load_config meets: a missing
\* file (FileNotFoundError), a file yaml cannot parse (YAMLError, which no
\* handler catches) or a parsed document.
lifespan(file, config, env) ==
    IF file = "missing"
    THEN StartupState("aborted", "RuntimeError", "not_run", FALSE, FALSE, FALSE)
    ELSE IF file = "unparsable"
    THEN StartupState("aborted", "YAMLError", "not_run", FALSE, FALSE, FALSE)
    ELSE IF validate_config(config) # "ok"
    THEN StartupState("aborted", "RuntimeError", validate_config(config), TRUE, FALSE, FALSE)
    ELSE IF ~env.SHOPMONKEY_API_TOKEN
    THEN StartupState("aborted", "RuntimeError", "ok", TRUE, FALSE, FALSE)
    ELSE IF ~env.GOOGLE_SHEETS_ID
    THEN StartupState("aborted", "RuntimeError", "ok", TRUE, TRUE, FALSE)
    ELSE StartupState("serving", "", "ok", TRUE, TRUE, TRUE)

DayKeys == {"monday", "Monday", "funday"}

OpenStrings == {<<9, 0>>, <<25, 0>>, <<9>>, <<>>}

CloseStrings == {<<17, 0>>, <<17, 60>>, <<>>}

RawDays ==
    {RawDay(TRUE, FALSE, <<>>, <<>>), RawDay(FALSE, FALSE, <<>>, <<>>)}
        \cup {RawDay(FALSE, TRUE, o, c) : o \in OpenStrings, c \in CloseStrings}

RawDurations == {-60, 0, 60}

RawConfig(is_empty, has_bh, has_dur, bh_is_dict, day, hours, is_number, duration) ==
    [is_empty |-> is_empty, has_business_hours |-> has_bh,
     has_default_slot_duration_minutes |-> has_dur,
     business_hours_is_dict |-> bh_is_dict,
     business_hours |-> (day :> hours) @@ ("tuesday" :> RawDay(FALSE, TRUE, <<9, 0>>, <<17, 0>>)),
     duration_is_number |-> is_number, default_slot_duration_minutes |-> duration]

RawConfigs ==
    {RawConfig(e, hb, hd, bd, day, hours, n, duration) :
        e \in BOOLEAN, hb \in BOOLEAN, hd \in BOOLEAN, bd \in BOOLEAN,
        day \in DayKeys, hours \in RawDays, n \in BOOLEAN, duration \in RawDurations}

\* The configuration of test_valid_config_passes.
RawValid ==
    RawConfig(FALSE, TRUE, TRUE, TRUE, "monday", RawDay(FALSE, TRUE, <<9, 0>>, <<17, 0>>), TRUE, 60)

Envs == [SHOPMONKEY_API_TOKEN : BOOLEAN, GOOGLE_SHEETS_ID : BOOLEAN]

InitStartup ==
    /\ inp \in [kind : {"startup"}, file : {"parsed"}, config : RawConfigs, env : Envs]
               \cup [kind : {"startup"}, file : {"missing", "unparsable"},
                     config : {RawValid}, env : Envs]
    /\ out = NoOut
    /\ BookingIdle

Startup ==
    /\ inp.kind = "startup"
    /\ out = NoOut
    /\ out' = lifespan(inp.file, inp.config, inp.env)
    /\ UNCHANGED <<inp, booking_vars>>

\* A request handler runs: only after lifespan has yielded.
ServeRequest ==
    /\ inp.kind = "startup"
    /\ out # NoOut
    /\ out.phase = "serving"
    /\ out.served < MaxServed
    /\ out' = [out EXCEPT !.served = @ + 1]
    /\ UNCHANGED <<inp, booking_vars>>

NextStartup == Startup \/ ServeRequest

SpecStartup == InitStartup /\ [][NextStartup]_vars

\* The weekday names, whatever their capitalisation, among the keys explored.
WeekdayKeys == valid_days \cup {"Monday"}

\* A time string that is present and is not an hour 0-23, a colon and a
\* minute 0-59.
MalformedTime(s) == s # <<>> /\ ~(Len(s) = 2 /\ s[1] \in 0..23 /\ s[2] \in 0..59)

\* The configurations the statement lists: empty; lacking a required key;
\* with a key that is no weekday; with a malformed open or close string;
\* with a zero or negative default duration.
ListedInvalid(config) ==
    \/ config.is_empty
    \/ ~config.has_business_hours
    \/ ~config.has_default_slot_duration_minutes
    \/ /\ config.business_hours_is_dict
       /\ \E day \in DOMAIN config.business_hours :
            \/ day \notin WeekdayKeys
            \/ LET hours == config.business_hours[day]
               IN  /\ ~hours.is_null
                   /\ hours.is_dict
                   /\ MalformedTime(hours.open) \/ MalformedTime(hours.close)
    \/ config.duration_is_number /\ config.default_slot_duration_minutes <= 0

\* C19: validate_config raises ValueError on every configuration that is
\* empty, lacks business_hours or default_slot_duration_minutes, has a key
\* that is no weekday name, a malformed open or close string, or a default
\* duration of zero or less; and when loading or validation fails, start-up
\* aborts with neither vendor client constructed and no request is ever
\* served.
C19_InvalidConfigAbortsStartup ==
    (inp.kind = "startup" /\ out # NoOut) =>
        /\ (inp.file = "parsed" /\ ListedInvalid(inp.config)) => out.validation = "ValueError"
        /\ (inp.file # "parsed" \/ out.validation # "ok") =>
              /\ out.phase = "aborted"
              /\ ~out.shopmonkey_client
              /\ ~out.sheets_client
              /\ out.served = 0
        /\ out.served > 0 => (inp.file = "parsed" /\ ~ListedInvalid(inp.config))

\* A configuration valid but for a zero default duration, in an environment
\* where both clients could be constructed, aborts start-up.
C19_Witness ==
    /\ inp.kind = "startup"
    /\ out # NoOut
    /\ inp.file = "parsed"
    /\ inp.config = [RawValid EXCEPT !.default_slot_duration_minutes = 0]
    /\ inp.env.SHOPMONKEY_API_TOKEN /\ inp.env.GOOGLE_SHEETS_ID
    /\ out.validation = "ValueError"
    /\ out.phase = "aborted"
    /\ ~out.shopmonkey_client

\* A valid configuration reaches the serving phase and requests are served.
Startup_ServingReached ==
    /\ inp.kind = "startup"
    /\ out # NoOut
    /\ out.served = MaxServed

----------------------------------------------------------------------------
(* SpecAccepted: configurations that validate_config accepts, put through  *)
(* the hours lookup and the two loops of calculate_available_slots.  A     *)
(* configuration is held with the facts validate_config reads and the      *)
(* fields the engine reads.                                                *)

\* Iterations of the slot-start loop that are followed; a loop that has not
\* ended by then is reported as not having returned.
MaxSlotStarts == 50

FullConfig(business_hours, has_slot_interval, slot_interval_minutes) ==
    [is_empty |-> FALSE, has_business_hours |-> TRUE,
     has_default_slot_duration_minutes |-> TRUE, business_hours_is_dict |-> TRUE,
     business_hours |-> business_hours,
     duration_is_number |-> TRUE, default_slot_duration_minutes |-> 60,
     has_slot_interval |-> has_slot_interval,
     slot_interval_minutes |-> slot_interval_minutes]

MondayKeys == {"monday", "Monday"}

MondayEntries ==
    {RawDay(FALSE, TRUE, <<9, 0>>, <<17, 0>>), RawDay(FALSE, TRUE, <<9, 0>>, <<10, 0>>),
     RawDay(TRUE, FALSE, <<>>, <<>>)}

TuesdayEntries ==
    {RawDay(FALSE, TRUE, <<9, 0>>, <<17, 0>>), RawDay(FALSE, TRUE, <<17, 0>>, <<9, 0>>),
     RawDay(FALSE, TRUE, <<9, 0>>, <<9, 0>>), RawDay(FALSE, TRUE, <<9, 0>>, <<>>),
     RawDay(TRUE, FALSE, <<>>, <<>>), RawDay(FALSE, TRUE, <<25, 0>>, <<17, 0>>)}

SlotIntervals == {-30, 0, 30}

FullConfigs ==
    {FullConfig((k :> m) @@ ("tuesday" :> t), FALSE, 0) :
        k \in MondayKeys, m \in MondayEntries, t \in TuesdayEntries}
    \cup {FullConfig((k :> m) @@ ("tuesday" :> t), TRUE, i) :
        k \in MondayKeys, m \in MondayEntries, t \in TuesdayEntries, i \in SlotIntervals}

AcceptedConfigs == {config \in FullConfigs : validate_config(config) = "ok"}

\* Does `while current < close_dt: ...; current = current + interval` end?
RECURSIVE slot_starts_loop_returns(_, _, _, _)
slot_starts_loop_returns(current, close_dt, interval, fuel) ==
    IF ~(current < close_dt) THEN TRUE
    ELSE IF fuel = 0 THEN FALSE
    ELSE slot_starts_loop_returns(current + interval, close_dt, interval, fuel - 1)

generate_slot_start_times_returns(business_hours, slot_interval_minutes) ==
    IF ~is_open(business_hours) THEN TRUE
    ELSE slot_starts_loop_returns(business_hours.open_time, business_hours.close_time,
                                  slot_interval_minutes, MaxSlotStarts)

\* Does every calculate_days_needed call of calculate_available_slots return?
plans_return(date, config, slot_duration_minutes) ==
    LET business_hours == get_business_hours(config, date)
        slot_starts == generate_slot_start_times(business_hours, slot_interval_of(config))
    IN  \A i \in 1..Len(slot_starts) :
            calculate_days_needed(slot_duration_minutes, date, slot_starts[i], config).kind
                # "diverges"

AcceptedDates == {0, 1, 2}

AcceptedDurations == {60, 120, 600}

InitAccepted ==
    /\ inp \in [kind : {"accepted"}, config : AcceptedConfigs, date : AcceptedDates,
                duration : AcceptedDurations]
    /\ out = NoOut
    /\ BookingIdle

\* One availability computation for the date, as far as its loops go.
ComputeOnAccepted ==
    /\ inp.kind = "accepted"
    /\ out = NoOut
    /\ LET business_hours == get_business_hours(inp.config, inp.date)
           starts_return == generate_slot_start_times_returns(business_hours,
                                                              slot_interval_of(inp.config))
       IN  out' = [op |-> "accepted",
                   hours |-> business_hours,
                   starts_return |-> starts_return,
                   plans_return |-> IF starts_return
                                    THEN plans_return(inp.date, inp.config, inp.duration)
                                    ELSE FALSE]
    /\ UNCHANGED <<inp, booking_vars>>

NextAccepted == ComputeOnAccepted

SpecAccepted == InitAccepted /\ [][NextAccepted]_vars

\* C24: on every accepted configuration the slot-start loop and the
\* planner's loop both end, so calculate_available_slots returns.
C24_EngineTerminatesOnAcceptedConfig ==
    out.op = "accepted" => (out.starts_return /\ out.plans_return)

\* slot_interval_minutes: 0 on an open day: the slot-start loop never ends.
ZeroInterval_StartsLoopDiverges ==
    /\ out.op = "accepted"
    /\ inp.config.has_slot_interval /\ inp.config.slot_interval_minutes = 0
    /\ is_open(out.hours)
    /\ ~out.starts_return

\* Monday 09:00-10:00 and Tuesday 17:00-09:00 with the default interval: the
\* planner's outstanding minutes grow every week.
NegativeDay_PlannerDiverges ==
    /\ out.op = "accepted"
    /\ ~inp.config.has_slot_interval
    /\ out.starts_return
    /\ ~out.plans_return

\* Minutes one week of the schedule gives the planner.
WeekMinutes(config) ==
    SumMinutes([d \in 1..7 |->
        LET hours == get_business_hours(config, d)
        IN  <<d, IF is_open(hours) THEN hours.close_time - hours.open_time ELSE 0>>])

\* The slot-start loop is reported as not ending only for an interval of
\* zero or less, and the planner's only for a week that gives no minutes:
\* the loops so reported do not return.
Accepted_DivergenceIsReal ==
    out.op = "accepted" =>
        /\ ~out.starts_return => slot_interval_of(inp.config) <= 0
        /\ (out.starts_return /\ ~out.plans_return) => WeekMinutes(inp.config) <= 0

\* An entry of the schedule with an open and a close time.
HasOpenAndClose(hours) == ~hours.is_null /\ hours.open # <<>> /\ hours.close # <<>>

\* C29: in an accepted configuration, every weekday entry that has an open
\* and a close time resolves, on a date of that weekday, to open hours with
\* those times, however the key is capitalised.
C29_ConfiguredDayResolvesOpen ==
    out.op = "accepted" =>
        \A key \in DOMAIN inp.config.business_hours :
            LET hours == inp.config.business_hours[key]
            IN  (HasOpenAndClose(hours) /\ lower(key) = day_name(inp.date)) =>
                    out.hours = BusinessHours(strptime_HM(hours.open),
                                              strptime_HM(hours.close))

\* What does hold: a key written in lowercase resolves to its times.
LowercaseDayResolvesOpen ==
    out.op = "accepted" =>
        \A key \in DOMAIN inp.config.business_hours :
            LET hours == inp.config.business_hours[key]
            IN  (HasOpenAndClose(hours) /\ key = day_name(inp.date)) =>
                    out.hours = BusinessHours(strptime_HM(hours.open),
                                              strptime_HM(hours.close))

\* The key "Monday" with 09:00-17:00 passes validation and a Monday resolves
\* to closed hours.
CapitalisedDay_TreatedAsClosed ==
    /\ out.op = "accepted"
    /\ inp.date = 0
    /\ "Monday" \in DOMAIN inp.config.business_hours
    /\ inp.config.business_hours["Monday"] = RawDay(FALSE, TRUE, <<9, 0>>, <<17, 0>>)
    /\ ~is_open(out.hours)

----------------------------------------------------------------------------
(* The qualification sheet (sheets_client.py): the Tech/Dept tab             *)
(* The header is taken to be Name, ID, Primary Role, Detail, Tint, Status.  *)
(* A data row is held as its ID cell, its Status cell and its department    *)
(* cells; NoCell is a cell the row is too short to hold.                    *)

NoCell == "(no cell)"

department_names == <<"Detail", "Tint">>

SheetRow(tech_id, status, detail, tint) ==
    [tech_id |-> tech_id, status |-> status, cells |-> ("Detail" :> detail) @@ ("Tint" :> tint)]

\* str.upper() on the cell values explored
upper(s) == IF s = "x" THEN "X" ELSE s

\* int(value) on the cell values explored; a value outside raises ValueError
IntOf == ("0" :> 0) @@ ("1" :> 1) @@ ("2" :> 2) @@ ("3" :> 3) @@ ("-1" :> -1)

\* One department cell of a row to its priority.
cell_priority(cell) ==
    IF cell = NoCell THEN 0
    ELSE LET value == upper(cell)
         IN  IF value \in {"TRUE", "YES", "X"} THEN 1
             ELSE IF value \in {"FALSE", "NO", ""} THEN 0
             ELSE IF value \in DOMAIN IntOf THEN IntOf[value]
             ELSE 0

row_status(row) == IF row.status = NoCell THEN "Active" ELSE row.status

\* The dict of tech_id to tech_info, as the sequence of its items in
\* insertion order.
RECURSIVE sync_get_tech_departments(_)
sync_get_tech_departments(rows) ==
    IF rows = <<>> THEN <<>>
    ELSE LET row == Head(rows)
             rest == sync_get_tech_departments(Tail(rows))
         IN  IF lower(row_status(row)) # "active" THEN rest
             ELSE IF row.tech_id = "" THEN rest
             ELSE <<[tech_id |-> row.tech_id,
                     departments |-> [d \in Range(department_names) |-> cell_priority(row.cells[d])]]>>
                  \o rest

\* tech_info["departments"].get(department, 0)
department_priority(tech_info, department) ==
    IF department \in DOMAIN tech_info.departments THEN tech_info.departments[department] ELSE 0

RECURSIVE qualified_techs_of(_, _)
qualified_techs_of(tech_mappings, department) ==
    IF tech_mappings = <<>> THEN <<>>
    ELSE LET tech_info == Head(tech_mappings)
             priority == department_priority(tech_info, department)
             rest == qualified_techs_of(Tail(tech_mappings), department)
         IN  IF priority > 0
             THEN <<[tech_id |-> tech_info.tech_id, priority |-> priority]>> \o rest
             ELSE rest

\* list.sort(key=priority) is stable: an element goes after those of an
\* equal key that came before it.
RECURSIVE insert_by_priority(_, _)
insert_by_priority(sorted, t) ==
    IF sorted = <<>> THEN <<t>>
    ELSE IF Head(sorted).priority <= t.priority
         THEN <<Head(sorted)>> \o insert_by_priority(Tail(sorted), t)
         ELSE <<t>> \o sorted

RECURSIVE sort_by_priority(_)
sort_by_priority(techs) ==
    IF techs = <<>> THEN <<>>
    ELSE insert_by_priority(sort_by_priority(SubSeq(techs, 1, Len(techs) - 1)), techs[Len(techs)])

\* The qualified technicians left in sheet order.
sync_get_techs_for_department_unsorted(rows, department) ==
    qualified_techs_of(sync_get_tech_departments(rows), department)

sync_get_techs_for_department(rows, department) ==
    sort_by_priority(qualified_techs_of(sync_get_tech_departments(rows), department))

StatusCells == {"Active", "Inactive", NoCell}

DetailCells == {"", "1", "2", "x", "-1"}

TintCells == {"0", "3"}

SheetRows(tech_id) ==
    {SheetRow(tech_id, s, d, t) : s \in StatusCells, d \in DetailCells, t \in TintCells}

SheetDepartments == {"Detail", "Tint", "Wrap"}

InitSheet ==
    /\ inp \in [kind : {"sheet"},
                rows : {<<r1, r2, r3>> : r1 \in SheetRows("T1"), r2 \in SheetRows("T2"),
                                         r3 \in SheetRows("T3")},
                department : SheetDepartments]
    /\ out = NoOut
    /\ BookingIdle

GetTechsForDepartment ==
    /\ inp.kind = "sheet"
    /\ out = NoOut
    /\ out' = [op |-> "get_techs_for_department",
               res |-> sync_get_techs_for_department(inp.rows, inp.department)]
    /\ UNCHANGED <<inp, booking_vars>>

NextSheet == GetTechsForDepartment

SpecSheet == InitSheet /\ [][NextSheet]_vars

\* Declarative reading of the sheet.
ActiveRow(row) == row.status \in {"Active", NoCell}

\* The priority a row states for a department: a positive number, or the
\* legacy mark, else none (0).
StatedPriority(row, department) ==
    IF department \notin DOMAIN row.cells THEN 0
    ELSE CASE row.cells[department] = "1" -> 1
           [] row.cells[department] = "2" -> 2
           [] row.cells[department] = "3" -> 3
           [] row.cells[department] = "x" -> 1
           [] OTHER -> 0

\* C20: the list get_techs_for_department returns for a department holds,
\* once each, exactly the active technicians whose priority for the
\* department is 1 or more, each with that priority, never one with
\* priority 0 or without an entry for the department, and is in ascending
\* order of priority.
C20_QualifiedTechsByPriority ==
    out.op = "get_techs_for_department" =>
        /\ {t.tech_id : t \in Range(out.res)} =
              {inp.rows[i].tech_id : i \in {j \in 1..Len(inp.rows) :
                    /\ ActiveRow(inp.rows[j])
                    /\ StatedPriority(inp.rows[j], inp.department) >= 1}}
        /\ \A i, j \in 1..Len(out.res) : i < j =>
              /\ out.res[i].tech_id # out.res[j].tech_id
              /\ out.res[i].priority <= out.res[j].priority
        /\ \A i \in 1..Len(out.res) : \E j \in 1..Len(inp.rows) :
              /\ inp.rows[j].tech_id = out.res[i].tech_id
              /\ out.res[i].priority = StatedPriority(inp.rows[j], inp.department)
              /\ out.res[i].priority >= 1

\* Detail is asked for; T1 has priority 2, T2 is inactive with priority 1,
\* T3 has priority 1: T3 comes before T1 and T2 is left out.
C20_Witness ==
    /\ out.op = "get_techs_for_department"
    /\ inp.department = "Detail"
    /\ inp.rows[1].cells["Detail"] = "2" /\ ActiveRow(inp.rows[1])
    /\ inp.rows[2].cells["Detail"] = "1" /\ inp.rows[2].status = "Inactive"
    /\ inp.rows[3].cells["Detail"] = "1" /\ ActiveRow(inp.rows[3])
    /\ out.res = <<[tech_id |-> "T3", priority |-> 1], [tech_id |-> "T1", priority |-> 2]>>

\* A department the header does not hold has no technicians.
Sheet_UnknownDepartmentEmpty ==
    /\ out.op = "get_techs_for_department"
    /\ inp.department = "Wrap"
    /\ out.res = <<>>

----------------------------------------------------------------------------
(* The vendor client (shopmonkey_client.py): _request under its retry      *)
(* decorator.  One attempt sends one HTTP request; its outcome is the      *)
(* response or the exception httpx raises, and whether the vendor carried  *)
(* the request out (a read timeout or a dropped connection can follow a    *)
(* request the vendor has served).                                         *)

\* stop_after_attempt(3)
MaxAttempts == 3

AttemptResults == {"ok", "timeout", "network", "http_error", "other"}

\* What one attempt of _request raises ("" when it returns).
raised_by(result) ==
    CASE result = "ok" -> ""
      [] result = "timeout" -> "ShopmonkeyTimeoutError"
      [] result = "network" -> "ShopmonkeyNetworkError"
      [] result = "http_error" -> "ShopmonkeyAPIError"
      [] OTHER -> "Exception"

\* A retry condition that takes every Shopmonkey error, the base class included.
retry_if_any_api_error(error) ==
    error \in {"ShopmonkeyTimeoutError", "ShopmonkeyNetworkError", "ShopmonkeyAPIError"}

\* retry_if_exception_type((ShopmonkeyTimeoutError, ShopmonkeyNetworkError))
retry_if_exception_type(error) ==
    error \in {"ShopmonkeyTimeoutError", "ShopmonkeyNetworkError"}

\* The call after one more attempt with the given result; a call that has
\* made no attempt yet is NewCall.
after_attempt(call, result, served) ==
    LET n == call.attempts + 1
        error == raised_by(result)
    IN  [op |-> "request",
         attempts |-> n,
         results |-> Append(call.results, result),
         served |-> call.served + (IF served THEN 1 ELSE 0),
         state |-> IF error = "" THEN "returned"
                   ELSE IF retry_if_exception_type(error) /\ n < MaxAttempts THEN "retrying"
                   ELSE "raised",
         error |-> error]

NewCall == [op |-> "request", attempts |-> 0, results |-> <<>>, served |-> 0,
            state |-> "retrying", error |-> ""]

RequestMethods == {"GET", "POST", "DELETE"}

RequestEndpoints == {"/v3/appointment", "/v3/customer", "/v3/vehicle", "/v3/user"}

InitRequest ==
    /\ inp \in [kind : {"request"}, method : RequestMethods, endpoint : RequestEndpoints]
    /\ out = NewCall
    /\ BookingIdle

\* One attempt: client.request(...) and what follows it in _request.  A
\* response means the vendor served the request; an error status means it
\* refused it; after a timeout or a network error either may be the case.
RequestAttempt(result, served) ==
    /\ inp.kind = "request"
    /\ out.state = "retrying"
    /\ result \in {"ok", "other"} => served
    /\ result = "http_error" => ~served
    /\ out' = after_attempt(out, result, served)
    /\ UNCHANGED <<inp, booking_vars>>

NextRequest == \E result \in AttemptResults, served \in BOOLEAN : RequestAttempt(result, served)

SpecRequest == InitRequest /\ [][NextRequest]_vars

\* C21: a call makes at most 3 attempts; every attempt but the last ended in
\* a timeout or a network error; an error status ends the call at that
\* attempt with ShopmonkeyAPIError; a response ends it at that attempt by
\* returning; and a call that ends with the timeout or network error has
\* made 3 attempts.
C21_RetryOnlyTransportErrorsThrice ==
    (inp.kind = "request" /\ out.attempts > 0) =>
        /\ out.attempts = Len(out.results)
        /\ out.attempts \in 1..3
        /\ \A i \in 1..(out.attempts - 1) : out.results[i] \in {"timeout", "network"}
        /\ out.results[out.attempts] = "http_error" =>
              out.state = "raised" /\ out.error = "ShopmonkeyAPIError"
        /\ out.results[out.attempts] = "ok" <=> out.state = "returned"
        /\ out.results[out.attempts] \in {"timeout", "network"} =>
              IF out.attempts = 3
              THEN /\ out.state = "raised"
                   /\ out.error = raised_by(out.results[3])
              ELSE out.state = "retrying"
        /\ out.state = "retrying" => out.attempts < 3

\* Two timeouts and then a network error: the third attempt's error is raised.
C21_Witness ==
    /\ inp.kind = "request"
    /\ out.results = <<"timeout", "timeout", "network">>
    /\ out.state = "raised"
    /\ out.error = "ShopmonkeyNetworkError"

\* An error status on the second attempt ends the call there.
Request_ErrorStatusAfterRetry ==
    /\ inp.kind = "request"
    /\ out.results = <<"network", "http_error">>
    /\ out.state = "raised"

\* C28: a call that creates an appointment (POST /v3/appointment) sends the
\* vendor at most one request, and the vendor carries out at most one,
\* whatever timeouts and network errors the call meets.
C28_AtMostOneCreationRequest ==
    (inp.kind = "request" /\ inp.method = "POST" /\ inp.endpoint = "/v3/appointment") =>
        /\ out.attempts <= 1
        /\ out.served <= 1

\* The creation call times out twice after the vendor has served the
\* request, then gets its response: three appointments for one booking.
CreationRepeated_Reached ==
    /\ inp.kind = "request" /\ inp.method = "POST" /\ inp.endpoint = "/v3/appointment"
    /\ out.results = <<"timeout", "timeout", "ok">>
    /\ out.served = 3
    /\ out.state = "returned"

----------------------------------------------------------------------------
(* The booking layer (main.py): technician selection *)

\* A filter that keeps every qualified technician, available or not.
techs_in_unfiltered(qualified_techs, available_tech_ids) == qualified_techs

\* available_techs = [t for t in qualified_techs if t["tech_id"] in available_tech_ids]
techs_in(qualified_techs, available_tech_ids) ==
    SelectSeq(qualified_techs, LAMBDA t : t.tech_id \in Range(available_tech_ids))

\* dict.get(key, default)
dict_get(dict, key, default) == IF key \in DOMAIN dict THEN dict[key] ELSE default

\* dict[key] = value
dict_set(dict, key, value) ==
    [k \in DOMAIN dict \cup {key} |-> IF k = key THEN value ELSE dict[k]]

\* A selection without rotation: the first available technician, the
\* tracker left alone.
select_tech_by_priority_first(qualified_techs, available_tech_ids, department, tracker) ==
    LET available_techs == techs_in(qualified_techs, available_tech_ids)
    IN  IF available_techs = <<>> THEN [tech |-> NoTech, tracker |-> tracker]
        ELSE [tech |-> available_techs[1].tech_id, tracker |-> tracker]

\* Returns [tech |-> the selected tech_id or NoTech (None),
\*          tracker |-> round_robin_tracker after the call].
select_tech_by_priority(qualified_techs, available_tech_ids, department, tracker) ==
    LET available_techs == techs_in(qualified_techs, available_tech_ids)
    IN  IF available_techs = <<>> THEN [tech |-> NoTech, tracker |-> tracker]
        ELSE LET highest_priority == available_techs[1].priority
                 same_priority_techs ==
                     SelectSeq(available_techs,
                               LAMBDA t : t.priority = highest_priority)
             IN  IF Len(same_priority_techs) = 1
                 THEN [tech |-> same_priority_techs[1].tech_id, tracker |-> tracker]
                 ELSE LET dept_tracker == dict_get(tracker, department, <<>>)
                          last_index == dict_get(dept_tracker, highest_priority, -1)
                          next_index == (last_index + 1) % Len(same_priority_techs)
                      IN  [tech |-> same_priority_techs[next_index + 1].tech_id,
                           tracker |-> dict_set(tracker, department,
                                           dict_set(dept_tracker, highest_priority,
                                                    next_index))]

----------------------------------------------------------------------------
(* The booking layer: collaborators                                        *)
(* The vendor and the qualification sheet are outside the repository; the  *)
(* model fixes a service catalogue and a qualification table, lets every   *)
(* vendor call either answer or fail, and takes the vendor to return an    *)
(* appointment with the timestamps it was created with, on the date of its *)
(* startDate.                                                              *)

Tech(tech_id, tech_name, priority) ==
    [tech_id |-> tech_id, tech_name |-> tech_name, priority |-> priority]

\* get_canned_service + get_department_from_service: the service's first label
\* ("" for a service without a label); a service_id outside the domain is
\* unknown to the vendor
ServiceDepartment ==
    "detail" :> "Detail" @@ "tint" :> "Tint" @@ "ppf" :> "" @@ "wrap" :> "Wrap"

\* sheets_client.get_techs_for_department: sorted by priority
QualifiedTechs ==
    "Detail" :> <<Tech("T1", "Alice", 1), Tech("T2", "Bob", 1)>>
    @@ "Tint" :> <<Tech("T1", "Alice", 1)>>
    @@ "Wrap" :> <<>>

\* tech_ids = [t["tech_id"] for t in qualified_techs]
tech_ids_of(qualified_techs) ==
    [i \in 1..Len(qualified_techs) |-> qualified_techs[i].tech_id]

\* ShopmonkeyClient.get_appointments_for_date: the vendor's appointments that
\* start on the date, then the client-side filter on tech_ids.
get_appointments_for_date(date, tech_ids) ==
    LET appointments ==
            SelectSeq(store, LAMBDA a : a.startDate.kind = "iso"
                                        /\ a.startDate.d = date)
    IN  IF tech_ids # <<>>
        THEN SelectSeq(appointments,
                       LAMBDA a : a.technicianId \in Range(tech_ids)
                                  \/ a.userId \in Range(tech_ids))
        ELSE appointments

\* slot_start_dt.strftime("%Y-%m-%dT%H:%M:%S") + ".000-06:00"
format_iso_central(dt) == IsoTs(dt.d, dt.m, "-06:00")

\* The record create_appointment posts (customer, vehicle, notes left out).
new_appointment(technician_id, slot_start_dt, slot_end_dt) ==
    Appt(technician_id, NoTech, format_iso_central(slot_start_dt),
         format_iso_central(slot_end_dt))

----------------------------------------------------------------------------
(* SpecAvail: GET /availability (main.py get_availability) over bounded    *)
(* vendor stores: the day's snapshot, the future snapshots it fetches, and *)
(* the engine run on them.                                                 *)

\* if slot_duration > 300
FutureFetchThreshold == 300

\* for _ in range(5)
FutureFetchDays == 5

\* future_appointments as get_availability builds it; a date whose fetch
\* raised ShopmonkeyAPIError is left out.
fetch_future_appointments(target_date, tech_ids, slot_duration, failed_dates) ==
    IF slot_duration > FutureFetchThreshold
    THEN [d \in ((target_date + 1)..(target_date + FutureFetchDays)) \ failed_dates |->
              get_appointments_for_date(d, tech_ids)]
    ELSE NoFuture

get_availability(target_date, tech_ids, slot_duration, config, failed_dates) ==
    calculate_available_slots(target_date, tech_ids,
        get_appointments_for_date(target_date, tech_ids), config, slot_duration,
        fetch_future_appointments(target_date, tech_ids, slot_duration, failed_dates))

\* The vendor's stores are the sub-lists of this list.
AvailPool ==
    <<Appt("T1", NoTech, IsoTs(1, 540, ""), IsoTs(1, 600, "")),
      Appt("T1", NoTech, IsoTs(7, 540, ""), IsoTs(7, 600, "")),
      Appt("T2", NoTech, IsoTs(0, 540, ""), IsoTs(0, 600, ""))>>

AvailDurations == {60, 120, 600}

InitAvail ==
    /\ inp \in [kind : {"availability"}, config : {CfgB, CfgC}, date : {0, 1},
                tech_ids : {<<"T1">>, <<"T1", "T2">>}, duration : AvailDurations,
                failed_dates : {{}, {1}}]
    /\ out = NoOut
    /\ store \in SubListsUpTo(AvailPool, MaxAppts)
    /\ lock_holder = 0
    /\ lock_waiters = <<>>
    /\ round_robin_tracker = <<>>
    /\ pc = <<>>
    /\ request = <<>>
    /\ locals = <<>>
    /\ log = <<>>

GetAvailability ==
    /\ inp.kind = "availability"
    /\ out = NoOut
    /\ out' = [op |-> "get_availability",
               fetched |-> DOMAIN fetch_future_appointments(inp.date, inp.tech_ids,
                                                            inp.duration, inp.failed_dates),
               slots |-> get_availability(inp.date, inp.tech_ids, inp.duration, inp.config,
                                          inp.failed_dates)]
    /\ UNCHANGED <<inp, booking_vars>>

NextAvail == GetAvailability

SpecAvail == InitAvail /\ [][NextAvail]_vars

\* The continuation days of the plan of a returned slot.
ContinuationDays(slot) ==
    Tail(calculate_days_needed(inp.duration, inp.date, slot.start, inp.config).days)

\* The technician holds, in the vendor's store, an appointment that overlaps
\* the window the plan needs on the continuation day.
BusyOnContinuationDay(tech_id, day) ==
    LET hours == get_business_hours(inp.config, day[1])
        day_appointments == get_appointments_for_date(day[1], inp.tech_ids)
    IN  check_slot_conflicts(hours.open_time, time_plus(hours.open_time, day[2]), day[1],
                             day_appointments, tech_id, FALSE, <<>>)

\* C26: for every returned slot, every continuation day of its plan has been
\* fetched, and no technician listed for the slot holds an appointment that
\* overlaps the plan's window on a continuation day.
C26_ContinuationDaysFetched ==
    out.op = "get_availability" =>
        \A i \in 1..Len(out.slots) :
            LET days == ContinuationDays(out.slots[i])
            IN  \A n \in 1..Len(days) :
                    /\ days[n][1] \in out.fetched
                    /\ \A tech_id \in Range(out.slots[i].available_tech_ids) :
                           ~BusyOnContinuationDay(tech_id, days[n])

\* 120 minutes from Monday 16:00 continue on Tuesday 09:00-10:00, when T1 is
\* booked; nothing is fetched for Tuesday and the slot lists T1.
ShortLateService_BusyTechListed ==
    /\ out.op = "get_availability"
    /\ inp.duration = 120 /\ inp.date = 0 /\ inp.config = CfgB /\ inp.failed_dates = {}
    /\ out.fetched = {}
    /\ \E i \in 1..Len(out.slots) :
          /\ out.slots[i].start = 960
          /\ "T1" \in Range(out.slots[i].available_tech_ids)
          /\ BusyOnContinuationDay("T1", ContinuationDays(out.slots[i])[1])

\* With Monday 09:00-10:00 the only open day, a 600-minute service continues
\* on the following Mondays, the first of them 7 days on, beyond the 5 days
\* that are fetched.
DistantContinuation_BusyTechListed ==
    /\ out.op = "get_availability"
    /\ inp.duration = 600 /\ inp.date = 0 /\ inp.config = CfgC /\ inp.failed_dates = {}
    /\ \E i \in 1..Len(out.slots) :
          /\ "T1" \in Range(out.slots[i].available_tech_ids)
          /\ 7 \notin out.fetched
          /\ BusyOnContinuationDay("T1", ContinuationDays(out.slots[i])[1])

----------------------------------------------------------------------------
(* SpecSelect: select_tech_by_priority called again and again on one       *)
(* round_robin_tracker, for the departments of a fixed qualification table *)
(* and every list of available technicians; the last calls are kept.       *)

SelectTable ==
    "Detail" :> <<Tech("T1", "Alice", 1), Tech("T2", "Bob", 1), Tech("T3", "Cy", 1)>>
    @@ "Tint" :> <<Tech("T1", "Alice", 1), Tech("T2", "Bob", 2), Tech("T3", "Cy", 2)>>
    @@ "Wrap" :> <<>>

AvailableLists ==
    {<<>>, <<"T1">>, <<"T2">>, <<"T3", "T1">>, <<"T2", "T3">>, <<"T1", "T2", "T3">>}

\* As many calls are kept as the largest group of equal priority has members.
CallsKept == Len(SelectTable["Detail"])

LastCalls(calls) ==
    IF Len(calls) > CallsKept THEN SubSeq(calls, Len(calls) - CallsKept + 1, Len(calls))
    ELSE calls

InitSelect ==
    /\ inp = [kind |-> "select"]
    /\ out = [op |-> "select", calls |-> <<>>]
    /\ BookingIdle

SelectTech(department, available_tech_ids) ==
    /\ inp.kind = "select"
    /\ LET selected == select_tech_by_priority(SelectTable[department], available_tech_ids,
                                               department, round_robin_tracker)
           call == [department |-> department,
                    available_tech_ids |-> available_tech_ids,
                    tracker_before |-> round_robin_tracker,
                    tracker_after |-> selected.tracker,
                    tech |-> selected.tech]
       IN  /\ out' = [out EXCEPT !.calls = LastCalls(Append(@, call))]
           /\ round_robin_tracker' = selected.tracker
    /\ UNCHANGED <<inp, store, lock_holder, lock_waiters, pc, request, locals, log>>

NextSelect ==
    \E department \in DOMAIN SelectTable, available_tech_ids \in AvailableLists :
        SelectTech(department, available_tech_ids)

SpecSelect == InitSelect /\ [][NextSelect]_vars

\* Declarative reading of a call: the positions, in the department's list,
\* of the qualified technicians that are available.
CandidatePositions(call) ==
    {i \in 1..Len(SelectTable[call.department]) :
        SelectTable[call.department][i].tech_id \in Range(call.available_tech_ids)}

\* The available technicians of the lowest priority value, in list order.
TopGroup(call) ==
    LET q == SelectTable[call.department]
    IN  SelectSeq(tech_ids_of(q),
            LAMBDA id : \E i \in CandidatePositions(call) :
                /\ q[i].tech_id = id
                /\ \A j \in CandidatePositions(call) : q[i].priority <= q[j].priority)

TopPriority(call) ==
    LET q == SelectTable[call.department]
    IN  q[CHOOSE i \in CandidatePositions(call) :
              \A j \in CandidatePositions(call) : q[i].priority <= q[j].priority].priority

PositionIn(group, tech_id) == CHOOSE i \in 1..Len(group) : group[i] = tech_id

\* C22: whatever calls came before, select_tech_by_priority returns None iff
\* no qualified technician is available; otherwise it returns a technician
\* that is qualified, is in available_tech_ids, and has the lowest priority
\* value among the available qualified technicians.
C22_SelectedTechAvailableTopPriority ==
    out.op = "select" =>
        \A n \in 1..Len(out.calls) :
            LET call == out.calls[n]
                q == SelectTable[call.department]
            IN  /\ call.tech = NoTech <=> CandidatePositions(call) = {}
                /\ call.tech # NoTech =>
                      \E i \in CandidatePositions(call) :
                          /\ q[i].tech_id = call.tech
                          /\ call.tech \in Range(call.available_tech_ids)
                          /\ \A j \in CandidatePositions(call) : q[i].priority <= q[j].priority

\* After earlier calls have filled the tracker, Tint with T2 and T3
\* available (T1, of priority 1, busy) selects one of those two.
C22_Witness ==
    /\ out.op = "select"
    /\ Len(out.calls) = CallsKept
    /\ LET call == out.calls[CallsKept]
       IN  /\ call.department = "Tint"
           /\ call.available_tech_ids = <<"T2", "T3">>
           /\ call.tracker_before # <<>>
           /\ call.tech \in {"T2", "T3"}

\* Two calls kept are consecutive calls of one department.
ConsecutiveForDepartment(m, n) ==
    /\ m < n
    /\ out.calls[m].department = out.calls[n].department
    /\ \A x \in (m + 1)..(n - 1) : out.calls[x].department # out.calls[m].department

\* In /book the technician handed to create_appointment is None or one the
\* re-validation reported free.
Book_AssignedTechReportedFree ==
    \A r \in DOMAIN pc :
        (pc[r] = "create" \/ (pc[r] = "done" /\ locals[r].status_code = 200)) =>
            \/ locals[r].assigned_tech_id = NoTech
            \/ /\ locals[r].is_available
               /\ locals[r].assigned_tech_id \in Range(locals[r].available_tech_ids)

Book_AssignedTech_Reached ==
    \E r \in DOMAIN pc :
        /\ pc[r] = "create"
        /\ locals[r].assigned_tech_id # NoTech
        /\ Len(locals[r].available_tech_ids) = 1

\* C23: when the same k >= 2 technicians share the top priority on
\* consecutive calls for a department, each call selects the one after the
\* previous call's in list order, cyclically, and k such calls in a row
\* select each of them once; a call with k >= 2 writes the index of its
\* selection under (department, priority) and nothing else; a call with at
\* most one top-priority candidate leaves round_robin_tracker unchanged.
C23_RoundRobinAmongEqualPriority ==
    out.op = "select" =>
        /\ \A m, n \in 1..Len(out.calls) :
              (/\ ConsecutiveForDepartment(m, n)
               /\ TopGroup(out.calls[m]) = TopGroup(out.calls[n])
               /\ Len(TopGroup(out.calls[n])) >= 2) =>
                  PositionIn(TopGroup(out.calls[n]), out.calls[n].tech) =
                      (PositionIn(TopGroup(out.calls[m]), out.calls[m].tech)
                           % Len(TopGroup(out.calls[n]))) + 1
        /\ \A m \in 1..Len(out.calls) :
              LET group == TopGroup(out.calls[m])
                  k == Len(group)
              IN  (/\ k >= 2
                   /\ m + k - 1 <= Len(out.calls)
                   /\ \A x \in m..(m + k - 1) :
                         /\ out.calls[x].department = out.calls[m].department
                         /\ TopGroup(out.calls[x]) = group) =>
                      {out.calls[x].tech : x \in m..(m + k - 1)} = Range(group)
        /\ \A n \in 1..Len(out.calls) :
              LET call == out.calls[n]
                  group == TopGroup(call)
              IN  IF Len(group) >= 2
                  THEN /\ DOMAIN call.tracker_after =
                              DOMAIN call.tracker_before \cup {call.department}
                       /\ \A d \in DOMAIN call.tracker_before : d # call.department =>
                              call.tracker_after[d] = call.tracker_before[d]
                       /\ call.tracker_after[call.department][TopPriority(call)] =
                              PositionIn(group, call.tech) - 1
                       /\ call.department \in DOMAIN call.tracker_before =>
                              \A p \in DOMAIN call.tracker_before[call.department] :
                                  p # TopPriority(call) =>
                                      call.tracker_after[call.department][p] =
                                          call.tracker_before[call.department][p]
                  ELSE call.tracker_after = call.tracker_before

\* Three calls in a row for Detail with T1, T2, T3 available select T2, T3
\* and T1, the rotation having been left at T1 by an earlier call.
C23_Witness ==
    /\ out.op = "select"
    /\ Len(out.calls) = 3
    /\ \A n \in 1..3 : /\ out.calls[n].department = "Detail"
                       /\ out.calls[n].available_tech_ids = <<"T1", "T2", "T3">>
    /\ out.calls[1].tech = "T2"
    /\ out.calls[2].tech = "T3"
    /\ out.calls[3].tech = "T1"

----------------------------------------------------------------------------
(* The booking layer: POST /book                                           *)
(* Each request is an asyncio task; an action is the code one task runs    *)
(* between two awaits (the steps Revalidate and the exits are cut finer    *)
(* than that, which only adds interleavings).  The clients are taken to be *)
(* initialised (main.py 630 does not fire after start-up).                 *)

\* Number of /book requests explored.
NumRequests == 2

Requests == 1..NumRequests
NoRequest == 0

BookingRequest(service_id, slot_start, slot_end) ==
    [service_id |-> service_id, slot_start |-> slot_start, slot_end |-> slot_end]

NoBody == BookingRequest("", AbsentTs, AbsentTs)

\* The request bodies explored: a Monday slot of the two-technician service,
\* a slot of the one-technician service that ends on the next day, three
\* services that resolve to no technician, and a slot string that is not
\* ISO 8601.
Bodies ==
    { BookingRequest("detail", IsoTs(0, 540, "Z"), IsoTs(0, 600, "Z")),
      BookingRequest("tint", IsoTs(0, 960, ""), IsoTs(1, 600, "")),
      BookingRequest("wax", IsoTs(0, 540, ""), IsoTs(0, 600, "")),
      BookingRequest("ppf", IsoTs(0, 540, ""), IsoTs(0, 600, "")),
      BookingRequest("wrap", IsoTs(0, 540, ""), IsoTs(0, 600, "")),
      BookingRequest("detail", BadTs, IsoTs(0, 600, "")) }

\* The vendor's appointments before the first request.
InitialStores ==
    { <<>>,
      <<Appt("T2", NoTech, IsoTs(0, 540, "-06:00"), IsoTs(0, 600, "-06:00"))>> }

NoDt == [d |-> 0, m |-> 0, tzinfo |-> ""]

NoLocals ==
    [slot_start_dt |-> NoDt, slot_end_dt |-> NoDt, department |-> "",
     qualified_techs |-> <<>>, tech_ids |-> <<>>, appointments |-> <<>>,
     is_available |-> FALSE, available_tech_ids |-> <<>>,
     assigned_tech_id |-> NoTech, status_code |-> 0]

Init ==
    /\ inp = NoInput
    /\ out = NoOut
    /\ store \in InitialStores
    /\ lock_holder = NoRequest
    /\ lock_waiters = <<>>
    /\ round_robin_tracker = <<>>
    /\ pc = [r \in Requests |-> "idle"]
    /\ request = [r \in Requests |-> NoBody]
    /\ locals = [r \in Requests |-> NoLocals]
    /\ log = [r \in Requests |-> <<>>]

\* slot_start_dt.strftime("%Y-%m-%d"), and the date part is_slot_available
\* combines the times with
date_of(dt) == dt.d

\* slot_start_dt.time(): the time of day, tzinfo dropped
time_of(dt) == dt.m

\* The task goes on to its next await inside the critical section.
Continue(r, next_pc, events, new_locals) ==
    /\ pc' = [pc EXCEPT ![r] = next_pc]
    /\ locals' = [locals EXCEPT ![r] = new_locals]
    /\ log' = [log EXCEPT ![r] = @ \o events]
    /\ UNCHANGED <<lock_holder, lock_waiters>>

\* A faulty exit that keeps the lock when the request fails.
ExitLeak(r, status_code, events, new_locals) ==
    /\ pc' = [pc EXCEPT ![r] = "done"]
    /\ locals' = [locals EXCEPT ![r] = [new_locals EXCEPT !.status_code = status_code]]
    /\ log' = [log EXCEPT ![r] = @ \o events \o <<"release">>]
    /\ lock_holder' = IF status_code = 200 THEN NoRequest ELSE lock_holder
    /\ UNCHANGED lock_waiters

\* The task leaves `async with booking_lock` by return or by exception:
\* __aexit__ releases the lock, the response carries status_code.
Exit(r, status_code, events, new_locals) ==
    /\ pc' = [pc EXCEPT ![r] = "done"]
    /\ locals' = [locals EXCEPT ![r] = [new_locals EXCEPT !.status_code = status_code]]
    /\ log' = [log EXCEPT ![r] = @ \o events \o <<"release">>]
    /\ lock_holder' = NoRequest
    /\ UNCHANGED lock_waiters

\* POST /book arrives (requests are numbered in their order of arrival):
\* asyncio.Lock.acquire takes the lock at once when it is free and nobody
\* waits, and queues the task otherwise.
Arrive(r, body) ==
    /\ pc[r] = "idle"
    /\ \A q \in Requests : q < r => pc[q] # "idle"
    /\ request' = [request EXCEPT ![r] = body]
    /\ IF lock_holder = NoRequest /\ lock_waiters = <<>>
       THEN /\ lock_holder' = r
            /\ pc' = [pc EXCEPT ![r] = "locked"]
            /\ log' = [log EXCEPT ![r] = @ \o <<"acquire">>]
            /\ UNCHANGED lock_waiters
       ELSE /\ lock_waiters' = Append(lock_waiters, r)
            /\ pc' = [pc EXCEPT ![r] = "waiting"]
            /\ log' = [log EXCEPT ![r] = @ \o <<"wait">>]
            /\ UNCHANGED lock_holder
    /\ UNCHANGED <<inp, out, store, round_robin_tracker, locals>>

\* asyncio.Lock: the first waiter, woken by release, takes the free lock.
Wake(r) ==
    /\ pc[r] = "waiting"
    /\ lock_holder = NoRequest
    /\ lock_waiters # <<>>
    /\ Head(lock_waiters) = r
    /\ lock_holder' = r
    /\ lock_waiters' = Tail(lock_waiters)
    /\ pc' = [pc EXCEPT ![r] = "locked"]
    /\ log' = [log EXCEPT ![r] = @ \o <<"acquire">>]
    /\ UNCHANGED <<inp, out, store, round_robin_tracker, request, locals>>

\* How an awaited call ends: with its result, with a ShopmonkeyAPIError,
\* with any other exception, or (the two find_or_create calls) with a
\* record that has no id.
ReadOutcomes == {"ok", "api_error"}
FetchOutcomes == {"ok", "api_error", "unexpected"}

\* Slot parsing, then get_qualified_techs_for_service (the vendor's service,
\* its department, the sheet's technicians) and tech_ids.
GetQualifiedTechs(r, outcome) ==
    /\ pc[r] = "locked"
    /\ LET body == request[r]
           l == locals[r]
       IN  IF body.slot_start.kind # "iso" \/ body.slot_end.kind # "iso"
           THEN Exit(r, 500, <<>>, l)
           ELSE LET parsed == [l EXCEPT
                                  !.slot_start_dt = fromisoformat(replace_Z(body.slot_start)),
                                  !.slot_end_dt = fromisoformat(replace_Z(body.slot_end))]
                IN  IF outcome = "api_error" THEN Exit(r, 502, <<"techs">>, parsed)
                    ELSE IF body.service_id \notin DOMAIN ServiceDepartment
                    THEN Exit(r, 404, <<"techs">>, parsed)
                    ELSE IF ServiceDepartment[body.service_id] = ""
                    THEN Exit(r, 404, <<"techs">>, parsed)
                    ELSE LET department == ServiceDepartment[body.service_id]
                             qualified_techs == QualifiedTechs[department]
                         IN  IF qualified_techs = <<>>
                             THEN Exit(r, 404, <<"techs">>, parsed)
                             ELSE Continue(r, "techs", <<"techs">>,
                                      [parsed EXCEPT
                                          !.department = department,
                                          !.qualified_techs = qualified_techs,
                                          !.tech_ids = tech_ids_of(qualified_techs)])
    /\ UNCHANGED <<inp, out, store, round_robin_tracker, request>>

\* A faulty booking whose lock covers the fetch only.
FetchAppointmentsThenRelease(r, outcome) ==
    /\ pc[r] = "techs"
    /\ outcome = "ok"
    /\ LET l == locals[r]
       IN  /\ pc' = [pc EXCEPT ![r] = "fetched"]
           /\ locals' = [locals EXCEPT ![r] = [l EXCEPT !.appointments =
                   get_appointments_for_date(date_of(l.slot_start_dt), l.tech_ids)]]
           /\ log' = [log EXCEPT ![r] = @ \o <<"fetch">>]
           /\ lock_holder' = NoRequest
           /\ UNCHANGED lock_waiters
    /\ UNCHANGED <<inp, out, store, round_robin_tracker, request>>

\* shopmonkey_client.get_appointments_for_date(date_str, tech_ids): the
\* snapshot the re-validation runs on.
FetchAppointments(r, outcome) ==
    /\ pc[r] = "techs"
    /\ LET l == locals[r]
       IN  CASE outcome = "api_error" -> Exit(r, 502, <<"fetch">>, l)
             [] outcome = "unexpected" -> Exit(r, 500, <<"fetch">>, l)
             [] OTHER ->
                  Continue(r, "fetched", <<"fetch">>,
                      [l EXCEPT !.appointments =
                          get_appointments_for_date(date_of(l.slot_start_dt), l.tech_ids)])
    /\ UNCHANGED <<inp, out, store, round_robin_tracker, request>>

\* A faulty re-validation that goes on whatever is_slot_available returns.
RevalidateAlwaysProceeds(r) ==
    /\ pc[r] = "fetched"
    /\ LET l == locals[r]
           result == is_slot_available(date_of(l.slot_start_dt), time_of(l.slot_start_dt),
                                       time_of(l.slot_end_dt), l.tech_ids, l.appointments)
       IN  Continue(r, "customer", <<"revalidate">>,
               [l EXCEPT !.is_available = result[1], !.available_tech_ids = result[2]])
    /\ UNCHANGED <<inp, out, store, round_robin_tracker, request>>

\* is_slot_available(date=slot_start_dt, slot_start=slot_start_dt.time(),
\* slot_end=slot_end_dt.time(), ...) and the 409 exit.
Revalidate(r) ==
    /\ pc[r] = "fetched"
    /\ LET l == locals[r]
           result == is_slot_available(date_of(l.slot_start_dt), time_of(l.slot_start_dt),
                                       time_of(l.slot_end_dt), l.tech_ids, l.appointments)
           checked == [l EXCEPT !.is_available = result[1],
                                !.available_tech_ids = result[2]]
       IN  IF ~result[1]
           THEN Exit(r, 409, <<"revalidate">>, checked)
           ELSE Continue(r, "customer", <<"revalidate">>, checked)
    /\ UNCHANGED <<inp, out, store, round_robin_tracker, request>>

WriteOutcomes == {"ok", "api_error", "no_id"}

\* shopmonkey_client.find_or_create_customer and the customer_id check.
FindOrCreateCustomer(r, outcome) ==
    /\ pc[r] = "customer"
    /\ LET l == locals[r]
       IN  CASE outcome = "api_error" -> Exit(r, 502, <<"customer">>, l)
             [] outcome = "no_id" -> Exit(r, 500, <<"customer">>, l)
             [] OTHER -> Continue(r, "vehicle", <<"customer">>, l)
    /\ UNCHANGED <<inp, out, store, round_robin_tracker, request>>

\* shopmonkey_client.find_or_create_vehicle, the vehicle_id check, and
\* select_tech_by_priority up to the create_appointment call.
FindOrCreateVehicle(r, outcome) ==
    /\ pc[r] = "vehicle"
    /\ LET l == locals[r]
           selected == select_tech_by_priority(l.qualified_techs, l.available_tech_ids,
                                               l.department, round_robin_tracker)
       IN  CASE outcome = "api_error" ->
                  Exit(r, 502, <<"vehicle">>, l) /\ UNCHANGED round_robin_tracker
             [] outcome = "no_id" ->
                  Exit(r, 500, <<"vehicle">>, l) /\ UNCHANGED round_robin_tracker
             [] OTHER ->
                  /\ Continue(r, "create", <<"vehicle", "select">>,
                         [l EXCEPT !.assigned_tech_id = selected.tech])
                  /\ round_robin_tracker' = selected.tracker
    /\ UNCHANGED <<inp, out, store, request>>

\* shopmonkey_client.create_appointment and the response.
CreateAppointment(r, outcome) ==
    /\ pc[r] = "create"
    /\ LET l == locals[r]
       IN  CASE outcome = "api_error" ->
                  Exit(r, 502, <<"create">>, l) /\ UNCHANGED store
             [] OTHER ->
                  /\ store' = Append(store, new_appointment(l.assigned_tech_id,
                                                l.slot_start_dt, l.slot_end_dt))
                  /\ Exit(r, 200, <<"create">>, l)
    /\ UNCHANGED <<inp, out, round_robin_tracker, request>>

Next ==
    \/ \E r \in Requests, body \in Bodies : Arrive(r, body)
    \/ \E r \in Requests : Wake(r)
    \/ \E r \in Requests, outcome \in ReadOutcomes : GetQualifiedTechs(r, outcome)
    \/ \E r \in Requests, outcome \in FetchOutcomes : FetchAppointments(r, outcome)
    \/ \E r \in Requests : Revalidate(r)
    \/ \E r \in Requests, outcome \in WriteOutcomes : FindOrCreateCustomer(r, outcome)
    \/ \E r \in Requests, outcome \in WriteOutcomes : FindOrCreateVehicle(r, outcome)
    \/ \E r \in Requests, outcome \in ReadOutcomes : CreateAppointment(r, outcome)

Spec == Init /\ [][Next]_vars

TypeOK ==
    /\ lock_holder \in Requests \cup {NoRequest}
    /\ \A r \in Requests : pc[r] \in {"idle", "waiting", "locked", "techs",
                                       "fetched", "customer", "vehicle", "create", "done"}

\* One task's step inside the critical section.
Step(r) ==
    \/ \E outcome \in ReadOutcomes : GetQualifiedTechs(r, outcome)
    \/ \E outcome \in FetchOutcomes : FetchAppointments(r, outcome)
    \/ Revalidate(r)
    \/ \E outcome \in WriteOutcomes : FindOrCreateCustomer(r, outcome)
    \/ \E outcome \in WriteOutcomes : FindOrCreateVehicle(r, outcome)
    \/ \E outcome \in ReadOutcomes : CreateAppointment(r, outcome)

\* The event loop runs every ready task, and every awaited call returns or
\* raises (the HTTP client has a timeout).
FairSpec ==
    Spec /\ \A r \in Requests : WF_vars(Wake(r)) /\ WF_vars(Step(r))

----------------------------------------------------------------------------
(* Properties of the booking layer *)

Succeeded(r) == pc[r] = "done" /\ locals[r].status_code = 200

Called(r, event) == event \in Range(log[r])

\* Position of the first occurrence of event in request r's history, 0 if none.
Position(r, event) ==
    IF Called(r, event)
    THEN CHOOSE i \in 1..Len(log[r]) :
             log[r][i] = event /\ \A j \in 1..(i - 1) : log[r][j] # event
    ELSE 0

\* The intervals [slot_start, slot_end) of two requests share an instant.
SlotsOverlap(r1, r2) ==
    /\ AbsMinutes(locals[r1].slot_start_dt.d, locals[r1].slot_start_dt.m)
         < AbsMinutes(locals[r2].slot_end_dt.d, locals[r2].slot_end_dt.m)
    /\ AbsMinutes(locals[r2].slot_start_dt.d, locals[r2].slot_start_dt.m)
         < AbsMinutes(locals[r1].slot_end_dt.d, locals[r1].slot_end_dt.m)

SameSlot(r1, r2) ==
    /\ request[r1].service_id = request[r2].service_id
    /\ locals[r1].slot_start_dt = locals[r2].slot_start_dt
    /\ locals[r1].slot_end_dt = locals[r2].slot_end_dt

\* The vendor's appointments before the first successful booking.
AppointmentsAtStart ==
    SubSeq(store, 1, Len(store) - Cardinality({r \in Requests : Succeeded(r)}))

\* The qualified technicians with no appointment at the start that shares an
\* instant with request r's slot.
FreeAtStart(r) ==
    { t \in Range(locals[r].tech_ids) :
        ~\E i \in 1..Len(AppointmentsAtStart) :
            LET a == AppointmentsAtStart[i]
            IN  /\ AttributedTo(a, t)
                /\ Parseable(a)
                /\ AbsMinutes(a.startDate.d, a.startDate.m)
                     < AbsMinutes(locals[r].slot_end_dt.d, locals[r].slot_end_dt.m)
                /\ AbsMinutes(locals[r].slot_start_dt.d, locals[r].slot_start_dt.m)
                     < AbsMinutes(a.endDate.d, a.endDate.m) }

\* C1: no two requests both succeed with the same technician for overlapping
\* intervals, and the successful bookings of one slot never outnumber the
\* qualified technicians that were free for it.
C1_NoDoubleBooking ==
    /\ \A r1, r2 \in Requests :
           r1 # r2 /\ Succeeded(r1) /\ Succeeded(r2)
           /\ locals[r1].assigned_tech_id = locals[r2].assigned_tech_id
           => ~SlotsOverlap(r1, r2)
    /\ \A r \in Requests :
           Succeeded(r) =>
               Cardinality({q \in Requests : Succeeded(q) /\ SameSlot(q, r)})
                   <= Cardinality(FreeAtStart(r))

\* The slot of request r lies within one date.
OnOneDate(r) ==
    /\ locals[r].slot_start_dt.d = locals[r].slot_end_dt.d
    /\ locals[r].slot_start_dt.m < locals[r].slot_end_dt.m

\* What the lock and the re-validation do achieve: among requests whose slots
\* lie within one date, no technician is booked twice for overlapping
\* intervals.
BookingExclusiveOnOneDate ==
    \A r1, r2 \in Requests :
        r1 # r2 /\ Succeeded(r1) /\ Succeeded(r2) /\ OnOneDate(r1) /\ OnOneDate(r2)
        /\ locals[r1].assigned_tech_id = locals[r2].assigned_tech_id
        => ~SlotsOverlap(r1, r2)

\* Two requests for the same one-date slot with one technician free have
\* both run: exactly one of them holds the booking.
BookingExclusive_Witness ==
    \E r1, r2 \in Requests :
        /\ r1 # r2 /\ SameSlot(r1, r2) /\ OnOneDate(r1)
        /\ Succeeded(r1)
        /\ pc[r2] = "done" /\ locals[r2].status_code = 409

InCriticalSection(r) ==
    pc[r] \in {"locked", "techs", "fetched", "customer", "vehicle", "create"}

\* C7: a request holds the booking lock at every step from its acquisition
\* to its exit; the fetch, the re-validation and the create call happen in
\* that order with no release between them; and the snapshot the
\* re-validation ran on is still what the vendor holds when the appointment
\* is created.
C7_LockSpansFetchRevalidateCreate ==
    \A r \in Requests :
        /\ InCriticalSection(r) => lock_holder = r
        /\ pc[r] \in {"fetched", "customer", "vehicle", "create"} =>
               locals[r].appointments =
                   get_appointments_for_date(date_of(locals[r].slot_start_dt),
                                             locals[r].tech_ids)
        /\ Called(r, "revalidate") =>
               /\ 0 < Position(r, "acquire")
               /\ Position(r, "acquire") < Position(r, "fetch")
               /\ Position(r, "fetch") < Position(r, "revalidate")
        /\ Called(r, "create") =>
               /\ Position(r, "revalidate") < Position(r, "create")
               /\ \A i \in 1..Position(r, "create") : log[r][i] # "release"
        /\ Called(r, "release") =>
               /\ pc[r] = "done"
               /\ Position(r, "release") = Len(log[r])

\* A request that had to wait for the lock has booked.
C7_Witness ==
    \E r \in Requests :
        /\ Succeeded(r)
        /\ Called(r, "wait")
        /\ Position(r, "fetch") < Position(r, "revalidate")
        /\ Position(r, "revalidate") < Position(r, "create")

ExitCodes == {200, 404, 409, 500, 502}

\* C8: every exit of the critical section (200, 409, 404, 502, 500) releases
\* the lock, so a request that has ended does not hold it and the lock is
\* free when the request ends; under fair scheduling every waiting request
\* comes to hold the lock: the waiting requests are those in the queue, a
\* request leaves the queue only by taking the lock, and a queue that is not
\* empty always empties.
C8_LockReleasedOnEveryExit ==
    /\ [](\A r \in Requests :
              /\ pc[r] = "done" =>
                     /\ lock_holder # r
                     /\ locals[r].status_code \in ExitCodes
                     /\ log[r][Len(log[r])] = "release"
              /\ pc[r] = "waiting" <=> r \in Range(lock_waiters))
    /\ [][\A r \in Requests :
              /\ pc[r] # "done" /\ pc'[r] = "done" => lock_holder' = NoRequest
              /\ pc[r] = "waiting" /\ pc'[r] # "waiting" => lock_holder' = r]_vars
    /\ (lock_waiters # <<>>) ~> (lock_waiters = <<>>)

\* A request has failed and the request that waited behind it holds the lock.
C8_Witness ==
    \E r, q \in Requests :
        /\ pc[r] = "done"
        /\ locals[r].status_code \in {404, 409, 500, 502}
        /\ Called(q, "wait")
        /\ lock_holder = q

\* The window the re-validation checks: the slot's two times of day on the
\* date of slot_start.
NoTechFree(r) ==
    \A t \in Range(locals[r].tech_ids) :
        Busy(locals[r].appointments, t, date_of(locals[r].slot_start_dt),
             time_of(locals[r].slot_start_dt), time_of(locals[r].slot_end_dt))

\* C9: a request whose re-validation finds no qualified technician free ends
\* with 409 and has called neither find_or_create_customer,
\* find_or_create_vehicle nor create_appointment; it does not succeed; and
\* 409 is given for no other reason.
C9_NoFreeTechMeans409NoWrite ==
    \A r \in Requests :
        /\ Called(r, "revalidate") /\ NoTechFree(r) =>
               /\ pc[r] = "done"
               /\ locals[r].status_code = 409
               /\ ~Called(r, "customer")
               /\ ~Called(r, "vehicle")
               /\ ~Called(r, "create")
        /\ locals[r].status_code = 409 =>
               Called(r, "revalidate") /\ NoTechFree(r)

\* A request found its slot taken by a booking made while it waited.
C9_Witness ==
    \E r, q \in Requests :
        /\ r # q
        /\ Succeeded(q)
        /\ Called(r, "wait")
        /\ pc[r] = "done" /\ locals[r].status_code = 409
        /\ NoTechFree(r)
        /\ Len(store) = Len(AppointmentsAtStart) + 1

----------------------------------------------------------------------------
(* Bookings and the configured business hours                              *)

\* open_time <= slot_start < slot_end <= close_time on the date of
\* slot_start, the times of day taken on their dates.
within_business_hours(config, start_dt, end_dt) ==
    LET hours == get_business_hours(config, date_of(start_dt))
    IN  /\ is_open(hours)
        /\ hours.open_time <= time_of(start_dt)
        /\ \/ date_of(start_dt) < date_of(end_dt)
           \/ date_of(start_dt) = date_of(end_dt) /\ time_of(start_dt) < time_of(end_dt)
        /\ \/ date_of(end_dt) < date_of(start_dt)
           \/ date_of(end_dt) = date_of(start_dt) /\ time_of(end_dt) <= hours.close_time

\* C30: whatever schedule the service runs with, the appointment created by
\* a successful /book request lies on an open date and inside that date's
\* open and close times.
C30_CreatedAppointmentInsideBusinessHours ==
    \A r \in Requests, config \in Configs :
        (pc[r] = "done" /\ locals[r].status_code = 200) =>
            within_business_hours(config, locals[r].slot_start_dt, locals[r].slot_end_dt)

\* A request for Monday 16:00 is answered 200 and its appointment is in the
\* vendor's store, while the schedule closes Monday at 11:00.
Booking_AfterClosingTime_Created ==
    \E r \in Requests, i \in 1..Len(store) :
        /\ pc[r] = "done"
        /\ locals[r].status_code = 200
        /\ time_of(locals[r].slot_start_dt) = 960
        /\ get_business_hours(CfgA, date_of(locals[r].slot_start_dt)).close_time = 660
        /\ store[i] = new_appointment(locals[r].assigned_tech_id,
                                      locals[r].slot_start_dt, locals[r].slot_end_dt)

\* The Monday 09:00-10:00 booking is inside the hours of every schedule
\* explored: the handler reaches the same answer with or without hours.
Booking_InsideHours_Created ==
    \E r \in Requests :
        /\ pc[r] = "done"
        /\ locals[r].status_code = 200
        /\ \A config \in Configs :
               within_business_hours(config, locals[r].slot_start_dt, locals[r].slot_end_dt)
====
